---- MODULE Spec2Model ----
\* Model of shared/deploy.py: the parameter-resolution pipeline of deploy()
\* and the create/update/rollback state machine of deploy_cloudformation().
EXTENDS Integers, Sequences, FiniteSets, TLC

\* ---------------------------------------------------------------------
\* Strings.  A Python str is a sequence of tokens; a token is either one of
\* the characters the code inspects ("=", ",", "@", " ", "_", "-", ".") or
\* an opaque chunk of other characters.  The empty str is <<>>.
\* ---------------------------------------------------------------------
S(x) == <<x>>

\* Python None; str(None) is the four letters "None".
NoneVal == <<"<None>">>

Truthy(v) == v # NoneVal /\ v # <<>>

Contains(s, tok) == \E i \in 1..Len(s) : s[i] = tok

RECURSIVE IndexOf(_, _, _)
IndexOf(s, tok, i) ==
    IF i > Len(s) THEN 0
    ELSE IF s[i] = tok THEN i
    ELSE IndexOf(s, tok, i + 1)

\* s.split(tok, 1) for a string that contains tok
SplitFirst(s, tok) ==
    LET i == IndexOf(s, tok, 1)
    IN  <<SubSeq(s, 1, i - 1), SubSeq(s, i + 1, Len(s))>>

\* s.split(tok)
RECURSIVE SplitAll(_, _)
SplitAll(s, tok) ==
    IF ~Contains(s, tok) THEN <<s>>
    ELSE LET p == SplitFirst(s, tok) IN <<p[1]>> \o SplitAll(p[2], tok)

RECURSIVE LStrip(_)
LStrip(s) == IF s # <<>> /\ Head(s) = " " THEN LStrip(Tail(s)) ELSE s

RECURSIVE RStrip(_, _)
RStrip(s, tok) ==
    IF s # <<>> /\ s[Len(s)] = tok THEN RStrip(SubSeq(s, 1, Len(s) - 1), tok) ELSE s

Strip(s) == RStrip(LStrip(s), " ")

ReplaceTok(s, a, b) == [i \in 1..Len(s) |-> IF s[i] = a THEN b ELSE s[i]]

RemoveTok(s, a) == SelectSeq(s, LAMBDA t : t # a)

EndsWith(s, suf) ==
    /\ Len(suf) <= Len(s)
    /\ SubSeq(s, Len(s) - Len(suf) + 1, Len(s)) = suf

UpperTok(t) ==
    CASE t = "Dev" -> "DEV"
      [] t = "dev" -> "DEV"
      [] t = "acme" -> "ACME"
      [] t = "Acme" -> "ACME"
      [] t = "qa" -> "QA"
      [] t = "my" -> "MY"
      [] t = "proj" -> "PROJ"
      [] t = "Web" -> "WEB"
      [] t = "app" -> "APP"
      [] t = "service" -> "SERVICE"
      [] t = "order" -> "ORDER"
      [] t = "api" -> "API"
      [] t = "Api" -> "API"
      [] t = "Bug" -> "BUG"
      [] t = "Story" -> "STORY"
      [] t = "Task" -> "TASK"
      [] OTHER -> t

LowerTok(t) ==
    CASE t = "Dev" -> "dev"
      [] t = "DEV" -> "dev"
      [] t = "Acme" -> "acme"
      [] t = "ACME" -> "acme"
      [] t = "QA" -> "qa"
      [] t = "Qa" -> "qa"
      [] OTHER -> t

Upper(s) == [i \in 1..Len(s) |-> UpperTok(s[i])]
Lower(s) == [i \in 1..Len(s) |-> LowerTok(s[i])]

RECURSIVE Join(_, _)
Join(parts, sep) ==
    IF parts = <<>> THEN <<>>
    ELSE IF Len(parts) = 1 THEN parts[1]
    ELSE parts[1] \o sep \o Join(Tail(parts), sep)

\* ---------------------------------------------------------------------
\* Dictionaries: a dict is a function whose DOMAIN is its key set.
\* ---------------------------------------------------------------------
EmptyDict == [k \in {} |-> <<>>]

Update_KeepOld(d, m) ==
    [k \in DOMAIN d \cup DOMAIN m |-> IF k \in DOMAIN d THEN d[k] ELSE m[k]]

\* d.update(m)
Update(d, m) ==
    [k \in DOMAIN d \cup DOMAIN m |-> IF k \in DOMAIN m THEN m[k] ELSE d[k]]

\* d[key] = value
Put(d, key, value) == Update(d, [k \in {key} |-> value])

\* All sequences over set of length at most n
SeqsUpTo(set, n) == UNION {[1..m -> set] : m \in 0..n}

\* ---------------------------------------------------------------------
\* Parameter names and the fixed arguments of one deploy() invocation.
\* ---------------------------------------------------------------------
kVPCId == S("VPCId")
kVPCCidr == S("VPCCidr")
kBuildId == S("BuildId")
kEnvLower == S("EnvironmentNameLower")
kPubName == S("PublicHostedZoneName")
kPubId == S("PublicHostedZoneId")
kPrivName == S("PrivateHostedZoneName")
kPrivId == S("PrivateHostedZoneId")

aws_account_id == S("111122223333")
aws_region == <<"us", "-", "east", "-", "1">>
hosted_zone_suffix == <<"example", ".", "com">>

\* ---------------------------------------------------------------------
\* get_vpc_data: the VPC id and CIDR of the first VPC of the region.
\* A VPC is [VpcId, CidrBlock (NoneVal when the field is absent),
\* Assocs: sequence of [CidrBlock, State]].
\* ---------------------------------------------------------------------
RECURSIVE FirstAssociated(_, _)
FirstAssociated(assocs, i) ==
    IF i > Len(assocs) THEN NoneVal
    ELSE IF assocs[i].State = "associated" THEN assocs[i].CidrBlock
    ELSE FirstAssociated(assocs, i + 1)

VpcCidrOf(vpc) ==
    LET c == FirstAssociated(vpc.Assocs, 1)
    IN  IF ~Truthy(c) /\ vpc.CidrBlock # NoneVal THEN vpc.CidrBlock ELSE c

get_vpc_data(vpcs) ==
    IF vpcs = <<>>
    THEN (kVPCId :> NoneVal) @@ (kVPCCidr :> NoneVal)
    ELSE (kVPCId :> vpcs[1].VpcId) @@ (kVPCCidr :> VpcCidrOf(vpcs[1]))

\* ---------------------------------------------------------------------
\* get_hosted_zone_data: first public and first private zone whose name
\* ends with the suffix (normalised to end with "."), scanning the pages
\* in order and stopping as soon as both are found.
\* A zone is [Name, Id, Private].
\* ---------------------------------------------------------------------
SearchSuffix_AsGiven(suffix) == suffix

SearchSuffix(suffix) == IF EndsWith(suffix, S(".")) THEN suffix ELSE suffix \o S(".")

NoZones ==
    (kPubName :> NoneVal) @@ (kPubId :> NoneVal) @@
    (kPrivName :> NoneVal) @@ (kPrivId :> NoneVal)

ZoneStep(info, zone, search) ==
    IF ~EndsWith(zone.Name, search) THEN info
    ELSE IF zone.Private
    THEN IF ~Truthy(info[kPrivName])
         THEN Update(info, (kPrivName :> RStrip(zone.Name, ".")) @@
                           (kPrivId :> RemoveTok(zone.Id, "/hostedzone/")))
         ELSE info
    ELSE IF ~Truthy(info[kPubName])
         THEN Update(info, (kPubName :> RStrip(zone.Name, ".")) @@
                           (kPubId :> RemoveTok(zone.Id, "/hostedzone/")))
         ELSE info

BothZonesFound(info) == Truthy(info[kPubName]) /\ Truthy(info[kPrivName])

RECURSIVE ScanPage(_, _, _, _)
ScanPage(page, i, info, search) ==
    IF i > Len(page) THEN info
    ELSE LET next == ZoneStep(info, page[i], search)
         IN  IF BothZonesFound(next) THEN next ELSE ScanPage(page, i + 1, next, search)

RECURSIVE ScanPages(_, _, _, _)
ScanPages(pages, p, info, search) ==
    IF p > Len(pages) THEN info
    ELSE LET next == ScanPage(pages[p], 1, info, search)
         IN  IF BothZonesFound(next) THEN next ELSE ScanPages(pages, p + 1, next, search)

get_hosted_zone_data(suffix, pages) == ScanPages(pages, 1, NoZones, SearchSuffix(suffix))

\* ---------------------------------------------------------------------
\* get_subnet_data: Name tag -> subnet id, for the subnets that have one.
\* A subnet is [SubnetId, Tags: sequence of [Key, Value]].
\* ---------------------------------------------------------------------
RECURSIVE NameTag(_, _)
NameTag(tags, i) ==
    IF i > Len(tags) THEN NoneVal
    ELSE IF tags[i].Key = S("Name") THEN tags[i].Value
    ELSE NameTag(tags, i + 1)

RECURSIVE SubnetParams(_, _, _)
SubnetParams(subnets, i, acc) ==
    IF i > Len(subnets) THEN acc
    ELSE LET name == NameTag(subnets[i].Tags, 1)
         IN  SubnetParams(subnets, i + 1,
                 IF Truthy(name) THEN Put(acc, name, subnets[i].SubnetId) ELSE acc)

get_subnet_data(subnets) == SubnetParams(subnets, 1, EmptyDict)

\* ---------------------------------------------------------------------
\* get_stack_outputs: the name it looks up, and the dict it returns for a
\* describe_stacks response.  A response is [kind, outputs] with kind
\* "stack" (outputs: sequence of [OutputKey, OutputValue]), "no_stacks"
\* (a response without Stacks), "not_exist" (ClientError "... does not
\* exist") or "fault" (any other error, which is raised).
\* ---------------------------------------------------------------------
OutputStackName_NoUpper(project, env, base) ==
    IF Truthy(project)
    THEN ReplaceTok(Upper(project) \o S("-") \o env \o S("-") \o base, "_", "-")
    ELSE ReplaceTok(env \o S("-") \o base, "_", "-")

OutputStackName(project, env, base) ==
    IF Truthy(project)
    THEN ReplaceTok(Upper(project) \o S("-") \o Upper(env) \o S("-") \o base, "_", "-")
    ELSE ReplaceTok(Upper(env) \o S("-") \o base, "_", "-")

RECURSIVE OutputsDict(_, _, _)
OutputsDict(outputs, i, acc) ==
    IF i > Len(outputs) THEN acc
    ELSE OutputsDict(outputs, i + 1,
             IF Truthy(outputs[i].OutputKey)
             THEN Put(acc, outputs[i].OutputKey, outputs[i].OutputValue)
             ELSE acc)

StackOutputsRaises(resp) == resp.kind = "fault"

get_stack_outputs(resp) ==
    IF resp.kind = "stack" THEN OutputsDict(resp.outputs, 1, EmptyDict) ELSE EmptyDict

\* ---------------------------------------------------------------------
\* State of one deploy() invocation.
\* ---------------------------------------------------------------------
VARIABLES
    pc,                     \* position in deploy() / deploy_cloudformation()
    program,                \* "deploy" for deploy.py's deploy(), "params" for
                            \* params.py's resolve_baseline_params(), "render"
                            \* for render.py's get_initial_web_config_from_stacks(),
                            \* "jira_check" for jira_sync.py's cmd_check()
    project_name,           \* argument (NoneVal when not given)
    environment_name,       \* argument
    deployment_type,        \* argument
    deployment_name,        \* argument
    stack_name,             \* the name passed to deploy_cloudformation
    world,                  \* the external state two successive runs share
    build_id,               \* argument (NoneVal when not given)
    parent_stacks_csv,      \* argument (NoneVal when not given)
    params,                 \* the ParameterSet
    provenance,             \* history: key -> [phase, value, writers]: the
                            \* highest-precedence phase that wrote the key,
                            \* the value it wrote last, and all phases that
                            \* wrote the key
    parent_stack_entries,   \* the parsed parent list
    parent_index,           \* position of the parent loop
    lookups,                \* history of get_stack_outputs calls
    param_store_key,        \* the parameter store path that was queried
    cli_param_dict_parsed,  \* the well-formed --param overrides
    rendered,               \* render_template_string has been called
    template_parameters,    \* Parameters section of the rendered template
    cf_deploy_params,       \* parameter list forwarded to the stack call
    missing_params,         \* keys reported missing by reconciliation
    error,                  \* the exception deploy() ended with ("" if none)
    calls,                  \* history of mutating stack calls
    stack_status,           \* status read by the initial describe_stacks
    waiter_type,            \* "None" until a create or update was initiated
    action_taken,
    attempts,               \* status checks made so far by the running waiter
    slept,                  \* seconds slept so far by the running waiter
    event_pages,            \* history: the pages describe_stack_events returned
    events_retrieved,       \* the event retrieval completed without raising
    shown_events            \* the event list printed after a failed wait

identity ==
    <<program, project_name, environment_name, deployment_type, deployment_name>>

resolveVars ==
    <<identity, world, stack_name, build_id, parent_stacks_csv, params, provenance,
      parent_stack_entries, parent_index, lookups, param_store_key,
      cli_param_dict_parsed, rendered, template_parameters, cf_deploy_params,
      missing_params>>

cfVars ==
    <<calls, stack_status, waiter_type, action_taken, attempts, slept, event_pages,
      events_retrieved, shown_events>>

vars == <<pc, error, resolveVars, cfVars>>

\* Resolution phases, in the precedence order of their numbers.
PhaseBase == 1
PhaseDiscovery == 2
PhaseBuildId == 3
PhaseParents == 4
PhaseStore == 5
PhaseCli == 6

\* History of the writes of phase `phase`: a key's phase and value are
\* replaced by a write of the same or a higher-precedence phase only;
\* writers collects every phase that wrote the key.
Track(g, phase, m) ==
    [k \in DOMAIN g \cup DOMAIN m |->
        IF k \notin DOMAIN m THEN g[k]
        ELSE IF k \notin DOMAIN g
        THEN [phase |-> phase, value |-> m[k], writers |-> {phase}]
        ELSE IF phase >= g[k].phase
        THEN [phase |-> phase, value |-> m[k], writers |-> g[k].writers \cup {phase}]
        ELSE [phase |-> g[k].phase, value |-> g[k].value,
              writers |-> g[k].writers \cup {phase}]]

Fail(e) == pc' = "failed" /\ error' = e

ErrDiscovery == "discovery fault"
ErrParentFault == "parent stack lookup fault"
ErrParentMissing == "RuntimeError: required parent stack has no outputs"
ErrTemplate == "template unreadable or unparsable"
ErrRender == "template rendering error"
ErrMissingParams == "RuntimeError: required parameters are missing"
ErrDeployedFault == "deployed stack lookup fault"

\* The arguments environment_name, deployment_type and deployment_name.
Identity(envs, types, names) ==
    /\ environment_name \in envs
    /\ deployment_type \in types
    /\ deployment_name \in names

FixedIdentity == Identity({S("Dev")}, {S("service")}, {<<"order", "_", "api">>})

\* The step that follows a resolution step.  deploy() reads the parent
\* stacks before it derives BuildId and then reads the parameter store;
\* resolve_baseline_params() derives BuildId first and has no store phase.
After(step) ==
    CASE step = "subnets" -> IF program = "deploy" THEN "parents" ELSE "buildid"
      [] step = "parents" -> IF program = "deploy" THEN "buildid"
                             ELSE IF program = "params" THEN "cli" ELSE "resolved"
      [] step = "buildid" -> IF program = "deploy" THEN "ssm" ELSE "parents"
      [] step = "cli" -> IF program = "deploy" THEN "read_template" ELSE "metadata"

\* One run, whose external state is drawn call by call.
SingleRun == [run |-> 1]

InitWith(projects, buildIds, csvs) ==
    /\ project_name \in projects
    /\ build_id \in buildIds
    /\ parent_stacks_csv \in csvs
    /\ params = EmptyDict
    /\ provenance = EmptyDict
    /\ parent_stack_entries = <<>>
    /\ parent_index = 0
    /\ lookups = <<>>
    /\ param_store_key = NoneVal
    /\ cli_param_dict_parsed = EmptyDict
    /\ rendered = FALSE
    /\ template_parameters = <<>>
    /\ cf_deploy_params = <<>>
    /\ missing_params = <<>>
    /\ error = ""
    /\ calls = <<>>
    /\ stack_status = ""
    /\ waiter_type = "None"
    /\ action_taken = FALSE
    /\ attempts = 0
    /\ slept = 0
    /\ event_pages = <<>>
    /\ events_retrieved = FALSE
    /\ shown_events = <<>>

\* ---------------------------------------------------------------------
\* Phase 1: base identity parameters.
\* ---------------------------------------------------------------------
InitialParams ==
    LET common == (S("AccountId") :> aws_account_id) @@
                  (S("Region") :> aws_region) @@
                  (kEnvLower :> Lower(environment_name)) @@
                  (S("EnvironmentNameUpper") :> Upper(environment_name))
        base == IF program = "deploy"
                THEN Put(common, S("DeploymentName"), deployment_name) ELSE common
        withProject == IF Truthy(project_name)
                       THEN Put(base, S("ProjectName"), project_name) ELSE base
    IN  IF program = "deploy" /\ Truthy(build_id)
        THEN Put(withProject, kBuildId, build_id) ELSE withProject

BaseParams ==
    /\ pc = "start"
    /\ params' = InitialParams
    /\ provenance' = Track(provenance, PhaseBase, InitialParams)
    /\ pc' = "vpc"
    /\ UNCHANGED <<error, identity, world, stack_name, build_id, parent_stacks_csv,
                   parent_stack_entries, parent_index, lookups, param_store_key,
                   cli_param_dict_parsed, rendered, template_parameters,
                   cf_deploy_params, missing_params, cfVars>>

Merge_Replace(phase, m) ==
    /\ params' = m
    /\ provenance' = Track(provenance, phase, m)

\* Merge of one source's dict into the ParameterSet by phase `phase`.
Merge(phase, m) ==
    /\ params' = Update(params, m)
    /\ provenance' = Track(provenance, phase, m)

restUnchanged ==
    UNCHANGED <<identity, world, stack_name, build_id, parent_stacks_csv, parent_stack_entries,
                parent_index, lookups, param_store_key, cli_param_dict_parsed,
                rendered, template_parameters, cf_deploy_params, missing_params,
                cfVars>>

\* ---------------------------------------------------------------------
\* Phase 2: infrastructure discovery.
\* ---------------------------------------------------------------------
FetchVpc(listings) ==
    /\ pc = "vpc"
    /\ \/ /\ Fail(ErrDiscovery)
          /\ UNCHANGED <<params, provenance>>
       \/ \E vpcs \in listings :
             /\ Merge(PhaseDiscovery, get_vpc_data(vpcs))
             /\ pc' = "zones"
             /\ UNCHANGED error
    /\ restUnchanged

\* get_hosted_zone_data(aws_region, suffix) and the merge of its result.
FetchZonesFor(suffixes, listings) ==
    /\ pc = "zones"
    /\ \/ /\ Fail(ErrDiscovery)
          /\ UNCHANGED <<params, provenance>>
       \/ \E suffix \in suffixes : \E pages \in listings :
             /\ Merge(PhaseDiscovery, get_hosted_zone_data(suffix, pages))
             /\ pc' = "subnets"
             /\ UNCHANGED error
    /\ restUnchanged

FetchZones(listings) == FetchZonesFor({hosted_zone_suffix}, listings)

FetchSubnets(listings) ==
    /\ pc = "subnets"
    /\ IF Truthy(params[kVPCId])
       THEN \/ /\ Fail(ErrDiscovery)
               /\ UNCHANGED <<params, provenance>>
            \/ \E subnets \in listings :
                  /\ Merge(PhaseDiscovery, get_subnet_data(subnets))
                  /\ pc' = After("subnets")
                  /\ UNCHANGED error
       ELSE /\ pc' = After("subnets")
            /\ UNCHANGED <<params, provenance, error>>
    /\ restUnchanged

\* ---------------------------------------------------------------------
\* Phase 4: outputs of the required parent stacks, in list order.
\* ---------------------------------------------------------------------
RECURSIVE StripNonEmpty(_, _)
StripNonEmpty(parts, i) ==
    IF i > Len(parts) THEN <<>>
    ELSE (IF Strip(parts[i]) # <<>> THEN <<Strip(parts[i])>> ELSE <<>>)
         \o StripNonEmpty(parts, i + 1)

ParseParentList(csv) == StripNonEmpty(SplitAll(csv, ","), 1)

\* {parent}@{region}
ParseParentEntry(entry) ==
    IF Contains(entry, "@")
    THEN LET p == SplitFirst(entry, "@")
         IN  [base |-> Strip(p[1]), region |-> Strip(p[2])]
    ELSE [base |-> entry, region |-> aws_region]

ParentStacksBegin ==
    /\ pc = "parents"
    /\ IF Truthy(parent_stacks_csv) /\ ParseParentList(parent_stacks_csv) # <<>>
       THEN /\ parent_stack_entries' = ParseParentList(parent_stacks_csv)
            /\ parent_index' = 1
            /\ pc' = "parent_loop"
       ELSE /\ pc' = After("parents")
            /\ UNCHANGED <<parent_stack_entries, parent_index>>
    /\ UNCHANGED <<error, identity, world, stack_name, build_id, parent_stacks_csv, params, provenance,
                   lookups, param_store_key, cli_param_dict_parsed, rendered,
                   template_parameters, cf_deploy_params, missing_params, cfVars>>

Lookup(purpose, region, base, resp) ==
    [purpose |-> purpose,
     region |-> region,
     name |-> OutputStackName(project_name, environment_name, base),
     kind |-> resp.kind,
     empty |-> get_stack_outputs(resp) = EmptyDict]

ParentOutputsMissing_WarnOnly(parent_outputs) == FALSE

\* if parent_outputs: ... else: raise RuntimeError
ParentOutputsMissing(parent_outputs) == parent_outputs = EmptyDict

\* boto3.client('cloudformation', region_name='') raises, or builds a client
\* whose calls cannot connect: a lookup in the empty region ends in a fault.
Answers(region, responses) ==
    IF region = <<>> THEN {resp \in responses : resp.kind = "fault"} ELSE responses

ParentStackStep(responses) ==
    /\ pc = "parent_loop"
    /\ LET entry == ParseParentEntry(parent_stack_entries[parent_index])
       IN  \E resp \in Answers(entry.region, responses) :
             /\ lookups' = Append(lookups, Lookup("parent", entry.region, entry.base, resp))
             /\ IF StackOutputsRaises(resp)
                THEN /\ Fail(ErrParentFault)
                     /\ UNCHANGED <<params, provenance, parent_index>>
                ELSE IF ~ParentOutputsMissing(get_stack_outputs(resp))
                THEN /\ Merge(PhaseParents, get_stack_outputs(resp))
                     /\ parent_index' = parent_index + 1
                     /\ pc' = IF parent_index = Len(parent_stack_entries)
                              THEN After("parents") ELSE "parent_loop"
                     /\ UNCHANGED error
                ELSE /\ Fail(ErrParentMissing)
                     /\ UNCHANGED <<params, provenance, parent_index>>
    /\ UNCHANGED <<identity, world, stack_name, build_id, parent_stacks_csv, parent_stack_entries,
                   param_store_key, cli_param_dict_parsed, rendered,
                   template_parameters, cf_deploy_params, missing_params, cfVars>>

\* get_initial_web_config_from_stacks() of render.py: the same list, parsed
\* the same way; the outputs of each parent, filtered by the whitelist when
\* one is given, are merged into initial_web_config (held in params).  A
\* lookup that raises and a parent without outputs are reported and the
\* loop goes on.
Whitelist(csv) ==
    IF Truthy(csv) THEN {ParseParentList(csv)[i] : i \in DOMAIN ParseParentList(csv)} ELSE {}

Whitelisted(outputs, whitelist) ==
    IF whitelist # {}
    THEN [k \in DOMAIN outputs \cap whitelist |-> outputs[k]]
    ELSE outputs

WebConfigStep(responses, whitelist_csvs) ==
    /\ pc = "parent_loop"
    /\ program = "render"
    /\ LET entry == ParseParentEntry(parent_stack_entries[parent_index])
       IN  \E resp \in Answers(entry.region, responses) : \E csv \in whitelist_csvs :
             /\ lookups' = Append(lookups, Lookup("parent", entry.region, entry.base, resp))
             /\ IF StackOutputsRaises(resp)
                THEN UNCHANGED <<params, provenance>>
                ELSE Merge(PhaseParents, Whitelisted(get_stack_outputs(resp), Whitelist(csv)))
    /\ parent_index' = parent_index + 1
    /\ pc' = IF parent_index = Len(parent_stack_entries)
             THEN After("parents") ELSE "parent_loop"
    /\ UNCHANGED <<error, identity, world, stack_name, build_id, parent_stacks_csv,
                   parent_stack_entries, param_store_key, cli_param_dict_parsed, rendered,
                   template_parameters, cf_deploy_params, missing_params, cfVars>>

\* ---------------------------------------------------------------------
\* Phase 3: BuildId from the source-control revision, when not yet set.
\* git is the revision, or NoneVal when git fails or is not installed.
\* ---------------------------------------------------------------------
BuildIdFromGit_Unconditional(p, git) ==
    IF git # NoneVal THEN (kBuildId :> git) ELSE EmptyDict

BuildIdFromGit_NoneAsValue(p, git) ==
    IF kBuildId \notin DOMAIN p
    THEN (kBuildId :> IF git = NoneVal THEN S("None") ELSE git)
    ELSE EmptyDict

BuildIdFromGit_UnlessArgument(p, git) ==
    IF (kBuildId \notin DOMAIN p \/ p[kBuildId] # build_id) /\ git # NoneVal
    THEN (kBuildId :> git) ELSE EmptyDict

BuildIdFromGit(p, git) ==
    IF kBuildId \notin DOMAIN p /\ git # NoneVal THEN (kBuildId :> git) ELSE EmptyDict

AutoBuildId(revisions) ==
    /\ pc = "buildid"
    /\ \E git \in revisions : Merge(PhaseBuildId, BuildIdFromGit(params, git))
    /\ pc' = After("buildid")
    /\ UNCHANGED error
    /\ restUnchanged

\* ---------------------------------------------------------------------
\* Phase 5: the parameter store blob /deploy/{env}/params.json.
\* A lookup result is [kind, value]: "not_found", "fault", "invalid"
\* (the value is not JSON), "object" (value: dict) or "array" (value: the
\* items of a JSON array, each a pair <<k, v>> or something else).
\* dict.update of a sequence inserts its pairs in order and raises at the
\* first item that is not a pair, keeping what it inserted before.
\* ---------------------------------------------------------------------
StrOf(v) == IF v = NoneVal THEN S("None") ELSE v

ParamStoreKey(p) == <<"/deploy/">> \o StrOf(p[kEnvLower]) \o <<"/params.json">>

IsPair(item) == Len(item) = 2

RECURSIVE MergeSeq2(_, _, _)
MergeSeq2(d, items, i) ==
    IF i > Len(items) \/ ~IsPair(items[i]) THEN d
    ELSE MergeSeq2(Put(d, items[i][1], items[i][2]), items, i + 1)

SsmUpdate(res) ==
    CASE res.kind = "object" -> res.value
      [] res.kind = "array" -> MergeSeq2(EmptyDict, res.value, 1)
      [] OTHER -> EmptyDict

SsmParams(results) ==
    /\ pc = "ssm"
    /\ param_store_key' = ParamStoreKey(params)
    /\ \E res \in results : Merge(PhaseStore, SsmUpdate(res))
    /\ pc' = "cli"
    /\ UNCHANGED <<error, identity, world, stack_name, build_id, parent_stacks_csv, parent_stack_entries,
                   parent_index, lookups, cli_param_dict_parsed, rendered,
                   template_parameters, cf_deploy_params, missing_params, cfVars>>

\* ---------------------------------------------------------------------
\* Phase 6: --param KEY=VALUE overrides, in argument order.
\* ---------------------------------------------------------------------
RECURSIVE CliDict(_, _, _)
CliDict(list, i, acc) ==
    IF i > Len(list) THEN acc
    ELSE CliDict(list, i + 1,
             IF Contains(list[i], "=")
             THEN Put(acc, SplitFirst(list[i], "=")[1], SplitFirst(list[i], "=")[2])
             ELSE acc)

ParseCliParams(cli_params_list) ==
    IF Truthy(cli_params_list) THEN CliDict(cli_params_list, 1, EmptyDict) ELSE EmptyDict

CliOverrides(lists) ==
    /\ pc = "cli"
    /\ \E cli_params_list \in lists :
          /\ Merge(PhaseCli, ParseCliParams(cli_params_list))
          /\ cli_param_dict_parsed' = ParseCliParams(cli_params_list)
    /\ pc' = After("cli")
    /\ UNCHANGED <<error, identity, world, stack_name, build_id, parent_stacks_csv, parent_stack_entries,
                   parent_index, lookups, param_store_key, rendered,
                   template_parameters, cf_deploy_params, missing_params, cfVars>>

\* resolve_baseline_params() ends by storing the parameter categories
\* under the key _metadata and returns the ParameterSet.
PhaseMetadata == 7

ParamMetadata == S("<param_metadata>")

StoreMetadata ==
    /\ pc = "metadata"
    /\ Merge(PhaseMetadata, (S("_metadata") :> ParamMetadata))
    /\ pc' = "resolved"
    /\ UNCHANGED error
    /\ restUnchanged

\* ---------------------------------------------------------------------
\* Template: read and parse, render with the ParameterSet, parse again.
\* The Parameters section is a sequence of declarations
\* [key, hasDefault, noEcho] with distinct keys.
\* ---------------------------------------------------------------------
ReadTemplate ==
    /\ pc = "read_template"
    /\ \/ Fail(ErrTemplate)
       \/ pc' = "render" /\ UNCHANGED error
    /\ UNCHANGED <<resolveVars, cfVars>>

RenderTemplate(declarations) ==
    /\ pc = "render"
    /\ rendered' = TRUE
    /\ \/ /\ Fail(ErrRender)
          /\ UNCHANGED template_parameters
       \/ \E decls \in declarations :
             /\ template_parameters' = decls
             /\ pc' = "reconcile"
             /\ UNCHANGED error
    /\ UNCHANGED <<identity, world, stack_name, build_id, parent_stacks_csv, params, provenance,
                   parent_stack_entries, parent_index, lookups, param_store_key,
                   cli_param_dict_parsed, cf_deploy_params, missing_params, cfVars>>

\* ---------------------------------------------------------------------
\* Template reconciliation.
\* ---------------------------------------------------------------------
DeployParams_AllDeclared(decls, p, i) ==
    [j \in 1..Len(decls) |->
        [ParameterKey |-> decls[j].key,
         ParameterValue |-> IF decls[j].key \in DOMAIN p
                            THEN StrOf(p[decls[j].key]) ELSE <<>>]]

RECURSIVE DeployParams(_, _, _)
DeployParams(decls, p, i) ==
    IF i > Len(decls) THEN <<>>
    ELSE (IF decls[i].key \in DOMAIN p
          THEN <<[ParameterKey |-> decls[i].key, ParameterValue |-> StrOf(p[decls[i].key])]>>
          ELSE <<>>)
         \o DeployParams(decls, p, i + 1)

RECURSIVE MissingParams_IgnoreDefault(_, _, _)
MissingParams_IgnoreDefault(decls, p, i) ==
    IF i > Len(decls) THEN <<>>
    ELSE (IF decls[i].key \notin DOMAIN p THEN <<decls[i].key>> ELSE <<>>)
         \o MissingParams_IgnoreDefault(decls, p, i + 1)

RECURSIVE MissingParams(_, _, _)
MissingParams(decls, p, i) ==
    IF i > Len(decls) THEN <<>>
    ELSE (IF decls[i].key \notin DOMAIN p /\ ~decls[i].hasDefault
          THEN <<decls[i].key>>
          ELSE <<>>)
         \o MissingParams(decls, p, i + 1)

Reconcile ==
    /\ pc = "reconcile"
    /\ cf_deploy_params' = DeployParams(template_parameters, params, 1)
    /\ missing_params' = MissingParams(template_parameters, params, 1)
    /\ IF MissingParams(template_parameters, params, 1) # <<>>
       THEN Fail(ErrMissingParams)
       ELSE pc' = "stack_name" /\ UNCHANGED error
    /\ UNCHANGED <<identity, world, stack_name, build_id, parent_stacks_csv, params, provenance,
                   parent_stack_entries, parent_index, lookups, param_store_key,
                   cli_param_dict_parsed, rendered, template_parameters, cfVars>>

\* ---------------------------------------------------------------------
\* The name of the stack to deploy: PROJECT-ENV-TYPE-NAME, or ENV-TYPE-NAME
\* without a project, underscores replaced after the join.
\* ---------------------------------------------------------------------
StackNameParts_UpperAll(project, env, type, name) ==
    IF Truthy(project)
    THEN <<Upper(project), Upper(env), Upper(type), Upper(name)>>
    ELSE <<Upper(env), Upper(type), Upper(name)>>

StackNameParts(project, env, type, name) ==
    IF Truthy(project)
    THEN <<Upper(project), Upper(env), type, name>>
    ELSE <<Upper(env), type, name>>

StackName(project, env, type, name) ==
    ReplaceTok(Join(StackNameParts(project, env, type, name), S("-")), "_", "-")

NameStack ==
    /\ pc = "stack_name"
    /\ stack_name' = StackName(project_name, environment_name, deployment_type,
                               deployment_name)
    /\ pc' = "cf_describe"
    /\ UNCHANGED <<error, identity, world, build_id, parent_stacks_csv, params,
                   provenance, parent_stack_entries, parent_index, lookups,
                   param_store_key, cli_param_dict_parsed, rendered,
                   template_parameters, cf_deploy_params, missing_params, cfVars>>

\* ---------------------------------------------------------------------
\* deploy_cloudformation.
\* The outcome of a stack call is "ok" or the exception it raises: a
\* ClientError whose text contains "does not exist", one whose text
\* contains "No updates are to be performed", any other ClientError, or an
\* exception that is not a ClientError.
\* ---------------------------------------------------------------------
CE_NotExist == "ClientError: does not exist"
CE_NoUpdates == "ClientError: No updates are to be performed"
CE_Other == "ClientError"
OtherException == "Exception"
WaitFailed == "WaiterError: terminal failure"
WaitTimeout == "WaiterError: Max attempts exceeded"

DeleteWaitDelay == 15
DeleteWaitMaxAttempts == 40
DeployWaitDelay == 30
DeployWaitMaxAttempts == 120

\* One entry of the history of stack API calls: the operation and its
\* result ("ok", a status, or the exception raised).  A wait is one entry,
\* named after its waiter and made when the waiter returns or raises.
Call(op, result) == [op |-> op, result |-> result]

OuterHandler_Update(e) ==
    IF e = CE_NotExist
    THEN pc' = "cf_update" /\ UNCHANGED error
    ELSE Fail(e)

\* except cf_client.exceptions.ClientError around the describe/delete/
\* create/update block: "does not exist" leads to the create of the handler,
\* anything else is raised again.  Exceptions that are not ClientErrors
\* pass through.
OuterHandler(e) ==
    IF e = CE_NotExist
    THEN pc' = "cf_create" /\ UNCHANGED error
    ELSE Fail(e)

Raised(e) == IF e \in {CE_NotExist, CE_NoUpdates, CE_Other} THEN OuterHandler(e) ELSE Fail(e)

AfterDescribe_AlwaysRecreate(st) == "cf_delete"

AfterDescribe_AnyRollback(st) ==
    IF st \in {"ROLLBACK_COMPLETE", "UPDATE_ROLLBACK_COMPLETE"} THEN "cf_delete" ELSE "cf_update"

\* if stack_status == 'ROLLBACK_COMPLETE': delete and create; else: update
AfterDescribe(st) == IF st = "ROLLBACK_COMPLETE" THEN "cf_delete" ELSE "cf_update"

CfDescribe(statuses) ==
    /\ pc = "cf_describe"
    /\ \/ \E st \in statuses :
             /\ stack_status' = st
             /\ calls' = Append(calls, Call("describe_stacks", st))
             /\ pc' = AfterDescribe(st)
             /\ UNCHANGED error
       \/ \E e \in {CE_NotExist, CE_Other, OtherException} :
             /\ calls' = Append(calls, Call("describe_stacks", e))
             /\ Raised(e)
             /\ UNCHANGED stack_status
    /\ UNCHANGED <<resolveVars, waiter_type, action_taken, attempts, slept,
                   event_pages, events_retrieved, shown_events>>

CfDelete ==
    /\ pc = "cf_delete"
    /\ \E r \in {"ok", CE_NotExist, CE_Other, OtherException} :
          /\ calls' = Append(calls, Call("delete_stack", r))
          /\ IF r = "ok" THEN pc' = "cf_delete_wait" /\ UNCHANGED error ELSE Raised(r)
    /\ UNCHANGED <<resolveVars, stack_status, waiter_type, action_taken, attempts, slept,
                   event_pages, events_retrieved, shown_events>>

WaiterVerdict_OffByOne(outcome, made, max_attempts) ==
    CASE outcome = "success" -> "ok"
      [] outcome = "failure" -> WaitFailed
      [] OTHER -> IF made > max_attempts THEN WaitTimeout ELSE "sleep"

\* One status check of a waiter: "success" returns, "failure" raises, and a
\* check that is neither raises once max_attempts checks were made and
\* sleeps for the delay otherwise.
WaiterVerdict(outcome, made, max_attempts) ==
    CASE outcome = "success" -> "ok"
      [] outcome = "failure" -> WaitFailed
      [] OTHER -> IF made >= max_attempts THEN WaitTimeout ELSE "sleep"

PollOutcomes == {"success", "failure", "pending"}

\* A status check of the running waiter; on_return and on_raise are the
\* positions reached when wait() returns and when it raises WaiterError.
WaiterPoll(name, delay, max_attempts, on_return, on_raise) ==
    \E outcome \in PollOutcomes :
       LET verdict == WaiterVerdict(outcome, attempts + 1, max_attempts)
       IN  IF verdict = "sleep"
           THEN /\ attempts' = attempts + 1
                /\ slept' = slept + delay
                /\ UNCHANGED <<pc, error, calls>>
           ELSE /\ calls' = Append(calls, Call(name, verdict))
                /\ attempts' = 0
                /\ slept' = 0
                /\ IF verdict = "ok"
                   THEN pc' = on_return /\ UNCHANGED error
                   ELSE pc' = on_raise /\ error' = verdict

CfDeleteWaitPoll ==
    /\ pc = "cf_delete_wait"
    /\ WaiterPoll("stack_delete_complete", DeleteWaitDelay, DeleteWaitMaxAttempts,
                  "cf_create_after_delete", "failed")
    /\ UNCHANGED <<resolveVars, stack_status, waiter_type, action_taken, event_pages,
                   events_retrieved, shown_events>>

Initiated(kind) ==
    /\ waiter_type' = kind
    /\ action_taken' = TRUE
    /\ pc' = "cf_wait"
    /\ UNCHANGED error

CfCreateAfterDelete ==
    /\ pc = "cf_create_after_delete"
    /\ \E r \in {"ok", CE_NotExist, CE_Other, OtherException} :
          /\ calls' = Append(calls, Call("create_stack", r))
          /\ IF r = "ok"
             THEN Initiated("stack_create_complete")
             ELSE Raised(r) /\ UNCHANGED <<waiter_type, action_taken>>
    /\ UNCHANGED <<resolveVars, stack_status, attempts, slept, event_pages,
                   events_retrieved, shown_events>>

UpdateHandler_NoSpecialCase(e) == Raised(e)

\* except ClientError around update_stack: "No updates are to be
\* performed" returns True, anything else is raised again, into the
\* enclosing try block.
UpdateHandler(e) ==
    IF e = CE_NoUpdates
    THEN pc' = "cf_done" /\ UNCHANGED error
    ELSE Raised(e)

CfUpdate ==
    /\ pc = "cf_update"
    /\ \E r \in {"ok", CE_NoUpdates, CE_NotExist, CE_Other, OtherException} :
          /\ calls' = Append(calls, Call("update_stack", r))
          /\ IF r = "ok"
             THEN Initiated("stack_update_complete")
             ELSE /\ IF r = OtherException THEN Fail(r) ELSE UpdateHandler(r)
                  /\ UNCHANGED <<waiter_type, action_taken>>
    /\ UNCHANGED <<resolveVars, stack_status, attempts, slept, event_pages,
                   events_retrieved, shown_events>>

\* The create of the "does not exist" handler: every error is raised.
CfCreate ==
    /\ pc = "cf_create"
    /\ \E r \in {"ok", CE_NotExist, CE_Other, OtherException} :
          /\ calls' = Append(calls, Call("create_stack", r))
          /\ IF r = "ok"
             THEN Initiated("stack_create_complete")
             ELSE Fail(r) /\ UNCHANGED <<waiter_type, action_taken>>
    /\ UNCHANGED <<resolveVars, stack_status, attempts, slept, event_pages,
                   events_retrieved, shown_events>>

CfWaitPoll ==
    /\ pc = "cf_wait"
    /\ WaiterPoll(waiter_type, DeployWaitDelay, DeployWaitMaxAttempts,
                  "cf_done", "cf_events")
    /\ UNCHANGED <<resolveVars, stack_status, waiter_type, action_taken, event_pages,
                   events_retrieved, shown_events>>

\* The event history printed after a failed wait: the pages are appended
\* in listing order and the whole list is reversed; nothing is printed
\* when the retrieval raises.  The wait error is raised again either way.
RECURSIVE Flatten(_)
Flatten(pages) == IF pages = <<>> THEN <<>> ELSE Head(pages) \o Flatten(Tail(pages))

Reverse(s) == [i \in 1..Len(s) |-> s[Len(s) + 1 - i]]

ChronologicalEvents_PerPage(pages) ==
    Flatten([p \in DOMAIN pages |-> Reverse(pages[p])])

ChronologicalEvents(pages) == Reverse(Flatten(pages))

CfEvents(listings) ==
    /\ pc = "cf_events"
    /\ \E pages \in listings :
          \/ /\ event_pages' = pages
             /\ events_retrieved' = TRUE
             /\ shown_events' = ChronologicalEvents(pages)
             /\ calls' = Append(calls, Call("describe_stack_events", "ok"))
          \/ \E k \in 1..Len(pages) :
                /\ event_pages' = SubSeq(pages, 1, k - 1)
                /\ events_retrieved' = FALSE
                /\ shown_events' = <<>>
                /\ calls' = Append(calls, Call("describe_stack_events", OtherException))
    /\ pc' = "failed"
    /\ UNCHANGED <<error, resolveVars, stack_status, waiter_type, action_taken,
                   attempts, slept>>

\* ---------------------------------------------------------------------
\* Output chaining: the deployed stack's own outputs are merged in.
\* ---------------------------------------------------------------------
DeployedBase(type, name) == ReplaceTok(Join(<<type, name>>, S("-")), "_", "-")

DeployedBaseStackName == DeployedBase(deployment_type, deployment_name)

ChainOutputs_Replace(p, outputs) == outputs

\* params.update(deployed_stack_outputs)
ChainOutputs(p, outputs) == Update(p, outputs)

OutputChaining(responses) ==
    /\ pc = "cf_done"
    /\ \E resp \in responses :
          /\ lookups' = Append(lookups, Lookup("deployed", aws_region, DeployedBaseStackName, resp))
          /\ IF StackOutputsRaises(resp)
             THEN Fail(ErrDeployedFault) /\ UNCHANGED params
             ELSE /\ params' = ChainOutputs(params, get_stack_outputs(resp))
                  /\ pc' = "done"
                  /\ UNCHANGED error
    /\ UNCHANGED <<identity, world, stack_name, build_id, parent_stacks_csv, provenance,
                   parent_stack_entries, parent_index, param_store_key,
                   cli_param_dict_parsed, rendered, template_parameters,
                   cf_deploy_params, missing_params, cfVars>>

\* ---------------------------------------------------------------------
\* Bounded inputs.
\* ---------------------------------------------------------------------
MaxParents == 2
MaxCli == 2
MaxPages == 2
MaxPageLen == 2

kK == S("K")

vpcA == [VpcId |-> S("vpc-a"), CidrBlock |-> S("10.0.0.0/16"), Assocs |-> <<>>]
vpcB ==
    [VpcId |-> S("vpc-b"), CidrBlock |-> NoneVal,
     Assocs |-> <<[CidrBlock |-> S("10.1.0.0/16"), State |-> "associating"],
                  [CidrBlock |-> S("10.2.0.0/16"), State |-> "associated"]>>]

VpcListings == {<<>>, <<vpcA>>, <<vpcB, vpcA>>}
VpcListingsSmall == {<<vpcA>>}

zonePublic ==
    [Name |-> <<"a", ".", "example", ".", "com", ".">>, Id |-> <<"/hostedzone/", "Z1">>,
     Private |-> FALSE]
zonePrivate ==
    [Name |-> <<"b", ".", "example", ".", "com", ".">>, Id |-> <<"/hostedzone/", "Z2">>,
     Private |-> TRUE]
zoneOther ==
    [Name |-> <<"b", ".", "other", ".", "com", ".">>, Id |-> <<"/hostedzone/", "Z3">>,
     Private |-> FALSE]

ZoneListings == {<<>>, << <<zoneOther, zonePublic>> >>, << <<zonePublic>>, <<zonePrivate>> >>}
ZoneListingsSmall == {<< <<zonePublic>>, <<zonePrivate>> >>}

Subnet(id, tags) == [SubnetId |-> S(id), Tags |-> tags]
NameTagged(name) == <<[Key |-> S("Owner"), Value |-> S("ops")], [Key |-> S("Name"), Value |-> name]>>

SubnetListings ==
    {<<>>,
     <<Subnet("subnet-1", NameTagged(S("PrivateSubnetA"))), Subnet("subnet-2", <<>>)>>,
     <<Subnet("subnet-3", NameTagged(kBuildId))>>,
     <<Subnet("subnet-4", NameTagged(S("Region")))>>}
SubnetListingsSmall == {<<Subnet("subnet-1", NameTagged(S("PrivateSubnetA")))>>}

ParentEntries == {S("X"), <<" ", "Y", "@", "eu", " ">>}

ParentCsvs(n) == {NoneVal} \cup {Join(l, S(",")) : l \in SeqsUpTo(ParentEntries, n)}

Response(kind, outputs) == [kind |-> kind, outputs |-> outputs]
Output(k, v) == [OutputKey |-> k, OutputValue |-> v]

StackResponses ==
    {Response("not_exist", <<>>), Response("fault", <<>>), Response("no_stacks", <<>>),
     Response("stack", <<>>),
     Response("stack", <<Output(NoneVal, S("p0"))>>),
     Response("stack", <<Output(kK, S("p1"))>>),
     Response("stack", <<Output(kK, S("p2")), Output(S("Region"), S("p2"))>>),
     Response("stack", <<Output(kBuildId, S("p3")), Output(kEnvLower, S("p3"))>>)}
StackResponsesSmall ==
    {Response("not_exist", <<>>), Response("fault", <<>>), Response("stack", <<>>),
     Response("stack", <<Output(kK, S("p1"))>>)}

DeployedResponses ==
    {Response("not_exist", <<>>), Response("fault", <<>>),
     Response("stack", <<Output(kK, S("o1"))>>),
     Response("stack", <<Output(S("Endpoint"), S("o2"))>>)}

Revisions == {NoneVal, S("a1b2c3d")}
RevisionsSmall == {S("a1b2c3d")}

StoreResult(kind, value) == [kind |-> kind, value |-> value]

StoreResults ==
    {StoreResult("not_found", <<>>), StoreResult("fault", <<>>), StoreResult("invalid", <<>>),
     StoreResult("object", EmptyDict),
     StoreResult("object", (kK :> S("s1"))),
     StoreResult("object", (kBuildId :> S("s2")) @@ (kVPCId :> S("s2")))}
StoreResultsSmall == {StoreResult("not_found", <<>>), StoreResult("object", (kK :> S("s1")))}

CliStrings ==
    {<<"K", "=", "c1">>, <<"K", "=", "c2", "=", "x">>, <<"BuildId", "=", "c3">>, <<"K">>}
CliStringsSmall == {<<"K", "=", "c1">>, <<"K", "=", "c2">>, <<"K">>}

\* Lists of --param strings; a string given twice adds no case, so the
\* strings of a list are distinct (the same key may still come twice).
CliLists(strings, n) ==
    {NoneVal} \cup {l \in SeqsUpTo(strings, n) :
                       \A i \in DOMAIN l : \A j \in DOMAIN l : i # j => l[i] # l[j]}

Decl(key, hasDefault, noEcho) == [key |-> key, hasDefault |-> hasDefault, noEcho |-> noEcho]

DeclarationsSmall ==
    {<<Decl(kK, FALSE, FALSE), Decl(S("A"), TRUE, FALSE)>>,
     <<Decl(kBuildId, FALSE, TRUE), Decl(kVPCId, FALSE, FALSE)>>}

Declarations ==
    {<<>>,
     <<Decl(S("A"), FALSE, FALSE), Decl(S("B"), TRUE, FALSE)>>,
     <<Decl(kK, FALSE, FALSE), Decl(S("A"), TRUE, FALSE)>>,
     <<Decl(kK, TRUE, FALSE), Decl(kVPCId, FALSE, FALSE)>>,
     <<Decl(kBuildId, FALSE, TRUE), Decl(kVPCId, FALSE, FALSE)>>,
     <<Decl(kBuildId, FALSE, TRUE), Decl(kK, FALSE, FALSE), Decl(S("A"), FALSE, FALSE)>>}

Statuses == {"ROLLBACK_COMPLETE", "CREATE_COMPLETE", "UPDATE_ROLLBACK_COMPLETE"}
StatusesSmall == {"ROLLBACK_COMPLETE", "CREATE_COMPLETE"}

\* Event listings as describe_stack_events pages them: newest first.  An
\* event is its timestamp.
EventTimes == 1..3

NewestFirst(pages) ==
    LET all == Flatten(pages)
    IN  \A i \in 1..Len(all) : \A j \in 1..Len(all) : i < j => all[i] > all[j]

EventListings ==
    {pages \in SeqsUpTo(SeqsUpTo(EventTimes, MaxPageLen), MaxPages) : NewestFirst(pages)}
EventListingsSmall == {<<>>, << <<3, 2>>, <<1>> >>}

\* ---------------------------------------------------------------------
\* Specifications.
\* ---------------------------------------------------------------------
\* deploy(), whole.
Init ==
    /\ InitWith({S("acme")}, {NoneVal, S("b42")}, ParentCsvs(MaxParents))
    /\ FixedIdentity
    /\ program = "deploy"
    /\ world = SingleRun
    /\ stack_name = NoneVal
    /\ pc = "start"

Next ==
    \/ BaseParams
    \/ FetchVpc(VpcListingsSmall)
    \/ FetchZones(ZoneListingsSmall)
    \/ FetchSubnets(SubnetListingsSmall)
    \/ ParentStacksBegin
    \/ ParentStackStep(StackResponsesSmall)
    \/ AutoBuildId(RevisionsSmall)
    \/ SsmParams(StoreResultsSmall)
    \/ CliOverrides(CliLists(CliStringsSmall, MaxCli))
    \/ ReadTemplate
    \/ RenderTemplate(Declarations)
    \/ Reconcile
    \/ NameStack
    \/ CfDescribe(StatusesSmall)
    \/ CfDelete
    \/ CfDeleteWaitPoll
    \/ CfCreateAfterDelete
    \/ CfUpdate
    \/ CfCreate
    \/ CfWaitPoll
    \/ CfEvents(EventListingsSmall)
    \/ OutputChaining(DeployedResponses)

Spec == Init /\ [][Next]_vars

\* The resolution pipeline of deploy(), up to template reconciliation.
InitResolve ==
    /\ InitWith({NoneVal, S("acme")}, {NoneVal, S("b42")}, ParentCsvs(MaxParents))
    /\ FixedIdentity
    /\ program = "deploy"
    /\ world = SingleRun
    /\ stack_name = NoneVal
    /\ pc = "start"

NextResolve ==
    \/ BaseParams
    \/ FetchVpc(VpcListings)
    \/ FetchZones(ZoneListings)
    \/ FetchSubnets(SubnetListings)
    \/ ParentStacksBegin
    \/ ParentStackStep(StackResponses)
    \/ AutoBuildId(Revisions)
    \/ SsmParams(StoreResults)
    \/ CliOverrides(CliLists(CliStrings, MaxCli))
    \/ ReadTemplate
    \/ RenderTemplate(DeclarationsSmall)
    \/ Reconcile

SpecResolve == InitResolve /\ [][NextResolve]_vars

\* deploy_cloudformation(), called on its own.
InitCF ==
    /\ InitWith({S("acme")}, {NoneVal}, {NoneVal})
    /\ FixedIdentity
    /\ program = "deploy"
    /\ world = SingleRun
    /\ stack_name = StackName(project_name, environment_name, deployment_type,
                              deployment_name)
    /\ pc = "cf_describe"

NextCF ==
    \/ CfDescribe(Statuses)
    \/ CfDelete
    \/ CfDeleteWaitPoll
    \/ CfCreateAfterDelete
    \/ CfUpdate
    \/ CfCreate
    \/ CfWaitPoll
    \/ CfEvents(EventListings)

SpecCF == InitCF /\ [][NextCF]_vars

\* The waiters and the stack calls are blocking calls that return or raise.
LiveSpecCF == SpecCF /\ WF_vars(NextCF)

\* Stack naming for every identity: deploy() from the naming step on.
Projects == {NoneVal, <<>>, S("acme"), <<"my", "_", "proj">>}
Environments == {S("Dev"), <<"qa", "_", "1">>}
DeploymentTypes == {S("service"), <<"Web", "_", "app">>, <<>>}
DeploymentNames == {<<"order", "_", "api">>, S("Api"), <<"_", "x", "-", "y", "_">>}

InitNames ==
    /\ InitWith(Projects, {NoneVal}, {NoneVal})
    /\ Identity(Environments, DeploymentTypes, DeploymentNames)
    /\ program = "deploy"
    /\ world = SingleRun
    /\ stack_name = NoneVal
    /\ pc = "stack_name"

NextNames ==
    \/ NameStack
    \/ CfDescribe(StatusesSmall)
    \/ CfDelete
    \/ CfDeleteWaitPoll
    \/ CfCreateAfterDelete
    \/ CfUpdate
    \/ CfCreate
    \/ CfWaitPoll
    \/ CfEvents(EventListingsSmall)
    \/ OutputChaining(DeployedResponses)

SpecNames == InitNames /\ [][NextNames]_vars

\* =====================================================================
\* Properties.
\* =====================================================================
Range(f) == {f[i] : i \in DOMAIN f}

Ops == [i \in DOMAIN calls |-> calls[i].op]

MutatingOps == {"create_stack", "update_stack", "delete_stack"}

NoStackCall == \A i \in DOMAIN calls : calls[i].op \notin MutatingOps

\* ---------------------------------------------------------------------
\* C1: when the ParameterSet is matched against the template, every key
\* holds the value written by the highest-precedence phase that wrote it
\* (CLI 6 > store 5 > parents 4 > build id 3 > discovery 2 > base 1).
\* ---------------------------------------------------------------------
C1_Precedence ==
    pc = "reconcile" =>
        /\ DOMAIN params = DOMAIN provenance
        /\ \A k \in DOMAIN params :
              /\ params[k] = provenance[k].value
              /\ \A p \in provenance[k].writers : p <= provenance[k].phase

\* A key written by the build-id phase and two more phases reaches matching.
C1_Witness ==
    /\ pc = "reconcile"
    /\ \E k \in DOMAIN provenance :
          /\ PhaseBuildId \in provenance[k].writers
          /\ Cardinality(provenance[k].writers) >= 3

\* ---------------------------------------------------------------------
\* C2: in every state after the override phase, each key of a well-formed
\* --param override holds the value of the last override for that key.
\* ---------------------------------------------------------------------
C2_CliOverridesWin ==
    \A k \in DOMAIN cli_param_dict_parsed :
        k \in DOMAIN params /\ params[k] = cli_param_dict_parsed[k]

\* ---------------------------------------------------------------------
\* C3: a listed parent stack that does not exist or has no outputs makes
\* deploy() fail before the template is rendered and before any stack call;
\* no entry of the list is skipped.
\* ---------------------------------------------------------------------
ParentLookups == SelectSeq(lookups, LAMBDA l : l.purpose = "parent")

ParentList == IF Truthy(parent_stacks_csv) THEN ParseParentList(parent_stacks_csv) ELSE <<>>

MissingParentSeen ==
    \E i \in DOMAIN ParentLookups :
        ParentLookups[i].kind # "fault" /\ ParentLookups[i].empty

PastParents ==
    pc \notin {"start", "vpc", "zones", "subnets", "parents", "parent_loop", "failed"}

C3_MissingParentIsFatal ==
    /\ MissingParentSeen =>
          /\ pc = "failed"
          /\ error = ErrParentMissing
          /\ ~rendered
          /\ calls = <<>>
    /\ PastParents =>
          /\ Len(ParentLookups) = Len(ParentList)
          /\ ~MissingParentSeen

\* The second entry of a two-entry list is the one that is missing.
C3_Witness ==
    /\ pc = "failed"
    /\ Len(ParentLookups) = 2
    /\ ~ParentLookups[1].empty
    /\ ParentLookups[2].kind = "not_exist"

\* ---------------------------------------------------------------------
\* C4: reconciliation reports exactly the declared keys that are absent
\* from the ParameterSet and have no Default; it fails, with no stack call,
\* exactly when that set is not empty.
\* ---------------------------------------------------------------------
Reconciled ==
    pc \notin {"start", "vpc", "zones", "subnets", "parents", "parent_loop", "buildid",
               "ssm", "cli", "read_template", "render", "reconcile"}
    /\ (pc = "failed" =>
           error \notin {ErrDiscovery, ErrParentFault, ErrParentMissing, ErrTemplate, ErrRender})

RequiredAndAbsent ==
    {template_parameters[i].key : i \in
        {j \in DOMAIN template_parameters :
            /\ template_parameters[j].key \notin DOMAIN params
            /\ ~template_parameters[j].hasDefault}}

C4_Reconciliation ==
    Reconciled =>
        /\ Range(missing_params) = RequiredAndAbsent
        /\ Len(missing_params) = Cardinality(RequiredAndAbsent)
        /\ missing_params # <<>> => pc = "failed" /\ error = ErrMissingParams /\ calls = <<>>
        /\ missing_params = <<>> => error # ErrMissingParams

\* A declared key with a Default is absent and is not reported, while one
\* without a Default is.
C4_Witness ==
    /\ pc = "failed"
    /\ error = ErrMissingParams
    /\ Len(missing_params) = 1
    /\ \E i \in DOMAIN template_parameters :
          /\ template_parameters[i].hasDefault
          /\ template_parameters[i].key \notin DOMAIN params

\* ---------------------------------------------------------------------
\* deploy_cloudformation: what the call history says.
\* ---------------------------------------------------------------------
DescribeResult == IF calls = <<>> THEN "" ELSE calls[1].result

CountOp(op) == Cardinality({i \in DOMAIN calls : calls[i].op = op})

\* ---------------------------------------------------------------------
\* C5: when the initial describe reports that the stack does not exist,
\* exactly one create is issued, no update and no delete, and an accepted
\* create is followed by the wait for create completion.
\* ---------------------------------------------------------------------
C5_AbsentStackIsCreated ==
    DescribeResult = CE_NotExist =>
        /\ CountOp("update_stack") = 0
        /\ CountOp("delete_stack") = 0
        /\ IF pc = "cf_create"
           THEN Len(calls) = 1
           ELSE /\ CountOp("create_stack") = 1
                /\ calls[2].op = "create_stack"
                /\ IF calls[2].result = "ok"
                   THEN /\ waiter_type = "stack_create_complete"
                        /\ \/ pc = "cf_wait" /\ Len(calls) = 2
                           \/ Len(calls) >= 3 /\ calls[3].op = "stack_create_complete"
                   ELSE pc = "failed" /\ error = calls[2].result /\ Len(calls) = 2

\* The stack did not exist, was created, and the create wait returned.
C5_Witness ==
    /\ DescribeResult = CE_NotExist
    /\ pc = "cf_done"
    /\ Ops = <<"describe_stacks", "create_stack", "stack_create_complete">>

\* ---------------------------------------------------------------------
\* C6: for a stack in ROLLBACK_COMPLETE a create is issued only after the
\* delete and the successful delete wait, in that order, and a delete wait
\* that fails or times out aborts the invocation.
\* ---------------------------------------------------------------------
C6_DeleteWaitBeforeCreate ==
    stack_status = "ROLLBACK_COMPLETE" =>
        /\ \A i \in DOMAIN calls :
              calls[i].op = "create_stack" =>
                  \E j \in 1..(i - 1) : \E k \in (j + 1)..(i - 1) :
                      /\ calls[j].op = "delete_stack"
                      /\ calls[k] = Call("stack_delete_complete", "ok")
        /\ \A i \in DOMAIN calls :
              (calls[i].op = "stack_delete_complete" /\ calls[i].result # "ok") =>
                  pc = "failed" /\ error = calls[i].result /\ i = Len(calls)

\* ---------------------------------------------------------------------
\* C7: for an existing stack in any status other than ROLLBACK_COMPLETE an
\* update is issued and, whatever its outcome, no create and no delete.
\* ---------------------------------------------------------------------
C7_UpdateOnly ==
    stack_status \notin {"", "ROLLBACK_COMPLETE"} =>
        /\ pc # "cf_update" => calls[2].op = "update_stack"
        /\ CountOp("create_stack") = 0
        /\ CountOp("delete_stack") = 0

\* ---------------------------------------------------------------------
\* C8: "No updates are to be performed" ends deploy_cloudformation with
\* success at once: no wait, no event retrieval, no error; deploy() goes on
\* to output chaining and ends normally, the only way left to fail being a
\* fault of that last lookup itself.
\* ---------------------------------------------------------------------
NoUpdatesReported == \E i \in DOMAIN calls : calls[i] = Call("update_stack", CE_NoUpdates)

C8_NoUpdatesIsSuccess ==
    NoUpdatesReported =>
        /\ Ops = <<"describe_stacks", "update_stack">>
        /\ attempts = 0 /\ slept = 0
        /\ ~events_retrieved /\ shown_events = <<>>
        /\ pc \in {"cf_done", "done", "failed"}
        /\ pc = "failed" =>
              /\ error = ErrDeployedFault
              /\ lookups[Len(lookups)].purpose = "deployed"
              /\ lookups[Len(lookups)].kind = "fault"
        /\ pc # "failed" => error = ""

\* deploy() has ended normally after an update that had nothing to do.
C8_Witness ==
    /\ NoUpdatesReported
    /\ pc = "done"
    /\ error = ""

\* ---------------------------------------------------------------------
\* C9: after a failed or timed-out create/update wait every page of the
\* event history is retrieved, the events are shown in the reverse of the
\* listing order (oldest first), and the wait error is what is raised,
\* also when the retrieval fails.
\* ---------------------------------------------------------------------
DeployWaits == {"stack_create_complete", "stack_update_complete"}

DeployWaitFailed ==
    \E i \in DOMAIN calls : calls[i].op \in DeployWaits /\ calls[i].result # "ok"

RECURSIVE TotalLen(_)
TotalLen(pages) == IF pages = <<>> THEN 0 ELSE Len(Head(pages)) + TotalLen(Tail(pages))

\* The position in the listing of event i of page p.
ListingIndex(pages, p, i) == TotalLen(SubSeq(pages, 1, p - 1)) + i

C9_EventsThenRaise ==
    DeployWaitFailed =>
        /\ pc \in {"cf_events", "failed"}
        /\ \E i \in DOMAIN calls :
              calls[i].op \in DeployWaits /\ error = calls[i].result
        /\ error \in {WaitFailed, WaitTimeout}
        /\ pc = "failed" =>
              /\ calls[Len(calls)].op = "describe_stack_events"
              /\ events_retrieved =>
                    /\ Len(shown_events) = TotalLen(event_pages)
                    /\ \A p \in DOMAIN event_pages : \A i \in DOMAIN event_pages[p] :
                          shown_events[Len(shown_events) + 1
                                       - ListingIndex(event_pages, p, i)]
                              = event_pages[p][i]
                    /\ \A i \in DOMAIN shown_events : \A j \in DOMAIN shown_events :
                          i < j => shown_events[i] < shown_events[j]

\* Two non-empty pages were retrieved after a failed wait.
C9_Witness ==
    /\ pc = "failed"
    /\ DeployWaitFailed
    /\ events_retrieved
    /\ Len(event_pages) = 2
    /\ Len(event_pages[1]) = 2
    /\ Len(event_pages[2]) >= 1
    /\ Len(shown_events) >= 3

\* ---------------------------------------------------------------------
\* C10: every run of deploy_cloudformation ends; the delete wait makes at
\* most 40 checks 15 s apart, the create/update wait at most 120 checks
\* 30 s apart, and a wait whose stack never reaches a terminal status
\* ends in a fatal WaiterError.
\* ---------------------------------------------------------------------
WaitsWithinCeiling ==
    /\ DeleteWaitDelay < DeployWaitDelay
    /\ DeleteWaitMaxAttempts < DeployWaitMaxAttempts
    /\ pc = "cf_delete_wait" => attempts < 40 /\ slept = 15 * attempts
    /\ pc = "cf_wait" => attempts < 120 /\ slept = 30 * attempts
    /\ pc \notin {"cf_delete_wait", "cf_wait"} => attempts = 0 /\ slept = 0

TimeoutAtCeiling ==
    (error' = WaitTimeout /\ error # WaitTimeout) =>
        \/ pc = "cf_delete_wait" /\ attempts + 1 = 40 /\ pc' = "failed"
        \/ pc = "cf_wait" /\ attempts + 1 = 120 /\ pc' = "cf_events"

C10_BoundedWaits ==
    /\ []WaitsWithinCeiling
    /\ [][TimeoutAtCeiling]_vars
    /\ <>(pc \in {"cf_done", "failed"})

\* A create/update wait ran into its ceiling and the run ended in failure.
C10_Witness ==
    /\ pc = "failed"
    /\ error = WaitTimeout
    /\ \E i \in DOMAIN calls : calls[i].op \in DeployWaits /\ calls[i].result = WaitTimeout

\* ---------------------------------------------------------------------
\* C11: the deployed stack's outputs are fetched and merged exactly when
\* deploy_cloudformation returned (created, updated or unchanged); after a
\* deploy failure no fetch is made and the ParameterSet is what resolution
\* left; the merge keeps every key gathered before the deploy.
\* ---------------------------------------------------------------------
DeployReturned ==
    /\ calls # <<>>
    /\ calls[Len(calls)] \in {Call("stack_create_complete", "ok"),
                              Call("stack_update_complete", "ok"),
                              Call("update_stack", CE_NoUpdates)}

DeployedLookups == {i \in DOMAIN lookups : lookups[i].purpose = "deployed"}

\* The ParameterSet as the resolution phases left it.
ResolvedParams == [k \in DOMAIN provenance |-> provenance[k].value]

ChainingState ==
    /\ DeployedLookups # {} =>
          /\ DeployReturned
          /\ DeployedLookups = {Len(lookups)}
          /\ pc \in {"done", "failed"}
    /\ DeployReturned => (pc = "cf_done" \/ DeployedLookups # {})
    /\ pc = "done" =>
          /\ DeployedLookups # {}
          /\ \A k \in DOMAIN ResolvedParams : k \in DOMAIN params
          /\ lookups[Len(lookups)].empty => params = ResolvedParams
    /\ pc = "failed" => params = ResolvedParams
    /\ (pc = "failed" /\ error # ErrDeployedFault) => DeployedLookups = {}

\* The step that ends the run normally merges what the lookup returned;
\* no other step from the deploy call on touches the ParameterSet.
ChainingStep ==
    IF pc = "cf_done" /\ pc' = "done"
    THEN \E resp \in DeployedResponses :
            /\ params' = Update(params, get_stack_outputs(resp))
            /\ lookups'[Len(lookups')].kind = resp.kind
            /\ lookups'[Len(lookups')].empty = (get_stack_outputs(resp) = EmptyDict)
    ELSE (DOMAIN calls # {} \/ pc = "cf_describe") => params' = params

C11_ChainingOnlyAfterSuccess == []ChainingState /\ [][ChainingStep]_vars

\* The merge added an output to a non-empty ParameterSet.
C11_Witness ==
    /\ pc = "done"
    /\ DOMAIN ResolvedParams # {}
    /\ S("Endpoint") \in DOMAIN params
    /\ S("Endpoint") \notin DOMAIN ResolvedParams

\* ---------------------------------------------------------------------
\* C12: the name under which the deployed stack's outputs are looked up is
\* the name that was passed to deploy_cloudformation, for every identity.
\* ---------------------------------------------------------------------
C12_SameStackName ==
    \A i \in DOMAIN lookups :
        lookups[i].purpose = "deployed" => lookups[i].name = stack_name

\* A lookup for an identity without project whose parts hold underscores.
C12_Witness ==
    /\ DeployedLookups # {}
    /\ ~Truthy(project_name)
    /\ Contains(environment_name, "_")
    /\ Contains(deployment_type, "_")
    /\ Contains(deployment_name, "_")

\* ---------------------------------------------------------------------
\* C13: the stack name is PROJECT-ENV-TYPE-NAME, or ENV-TYPE-NAME without
\* a project; project and environment are uppercased, type and name keep
\* their case, every underscore is a hyphen.
\* ---------------------------------------------------------------------
Hyphenated(s) == [i \in DOMAIN s |-> IF s[i] = "_" THEN "-" ELSE s[i]]

ExpectedStackName ==
    (IF Truthy(project_name) THEN Hyphenated(Upper(project_name)) \o <<"-">> ELSE <<>>)
    \o Hyphenated(Upper(environment_name)) \o <<"-">>
    \o Hyphenated(deployment_type) \o <<"-">>
    \o Hyphenated(deployment_name)

C13_StackNameFormat ==
    stack_name # NoneVal =>
        /\ stack_name = ExpectedStackName
        /\ ~Contains(stack_name, "_")

\* A name was built from a mixed-case type and parts with underscores.
C13_Witness ==
    /\ stack_name # NoneVal
    /\ project_name = <<"my", "_", "proj">>
    /\ environment_name = <<"qa", "_", "1">>
    /\ deployment_type = <<"Web", "_", "app">>
    /\ deployment_name = <<"_", "x", "-", "y", "_">>

\* ---------------------------------------------------------------------
\* Two successive runs of deploy() with the same arguments against one
\* external state.  The world fixes what every lookup of the resolution
\* phases answers; the first run, when it ends normally, leaves the stack
\* in a completed status with the submission it deployed, and the second
\* run sees that stack: describe_stacks reports its status and
\* update_stack answers "No updates are to be performed" exactly when the
\* name, the parameters and the rendering context are the ones deployed.
\* ---------------------------------------------------------------------
ParentAnswers ==
    {Response("stack", <<Output(kK, S("p1"))>>),
     Response("stack", <<Output(kK, S("p2")), Output(kBuildId, S("p3"))>>)}

NothingDeployed == [name |-> NoneVal, parameters |-> <<>>, context |-> EmptyDict]

Worlds ==
    [run : {1},
     vpcs : VpcListingsSmall,
     zones : ZoneListingsSmall,
     subnets : SubnetListingsSmall,
     parents : [{S("X"), S("Y")} -> ParentAnswers],
     git : Revisions,
     ssm : StoreResultsSmall,
     cli : {NoneVal, <<kK \o <<"=", "c1">> >>},
     decls : DeclarationsSmall,
     outputs : {Response("not_exist", <<>>), Response("stack", <<Output(kK, S("o1"))>>)},
     status : {""},
     deployed : {NothingDeployed}]

Submission == [name |-> stack_name, parameters |-> cf_deploy_params, context |-> params]

StatusAfterDeploy ==
    CASE calls[Len(calls)] = Call("stack_create_complete", "ok") -> "CREATE_COMPLETE"
      [] calls[Len(calls)] = Call("stack_update_complete", "ok") -> "UPDATE_COMPLETE"
      [] OTHER -> stack_status

\* What the unchanged external state answers in the second run.
SameWorld ==
    world.run = 2 =>
        /\ error \notin {ErrDiscovery, ErrTemplate, ErrRender}
        /\ \A i \in DOMAIN calls :
              /\ calls[i].op = "describe_stacks" => calls[i].result = world.status
              /\ calls[i].op = "update_stack" =>
                    calls[i].result = IF Submission = world.deployed
                                      THEN CE_NoUpdates ELSE "ok"

\* The first run has ended normally; deploy() is invoked again.
Rerun ==
    /\ pc = "done"
    /\ world.run = 1
    /\ world' = [world EXCEPT !.run = 2,
                              !.status = StatusAfterDeploy,
                              !.deployed = [name |-> stack_name,
                                            parameters |-> cf_deploy_params,
                                            context |-> ResolvedParams]]
    /\ pc' = "start"
    /\ params' = EmptyDict
    /\ provenance' = EmptyDict
    /\ parent_stack_entries' = <<>>
    /\ parent_index' = 0
    /\ lookups' = <<>>
    /\ param_store_key' = NoneVal
    /\ cli_param_dict_parsed' = EmptyDict
    /\ rendered' = FALSE
    /\ template_parameters' = <<>>
    /\ cf_deploy_params' = <<>>
    /\ missing_params' = <<>>
    /\ stack_name' = NoneVal
    /\ calls' = <<>>
    /\ stack_status' = ""
    /\ waiter_type' = "None"
    /\ action_taken' = FALSE
    /\ event_pages' = <<>>
    /\ events_retrieved' = FALSE
    /\ shown_events' = <<>>
    /\ UNCHANGED <<error, identity, build_id, parent_stacks_csv, attempts, slept>>

InitTwice ==
    /\ InitWith({S("acme")}, {NoneVal},
                {NoneVal, Join(<<S("X"), <<" ", "Y", "@", "eu", " ">> >>, S(","))})
    /\ FixedIdentity
    /\ program = "deploy"
    /\ world \in Worlds
    /\ stack_name = NoneVal
    /\ pc = "start"

NextTwice ==
    \/ BaseParams
    \/ FetchVpc({world.vpcs}) /\ SameWorld'
    \/ FetchZones({world.zones}) /\ SameWorld'
    \/ FetchSubnets({world.subnets}) /\ SameWorld'
    \/ ParentStacksBegin
    \/ ParentStackStep(
          {world.parents[ParseParentEntry(parent_stack_entries[parent_index]).base]})
    \/ AutoBuildId({world.git})
    \/ SsmParams({world.ssm})
    \/ CliOverrides({world.cli})
    \/ ReadTemplate /\ SameWorld'
    \/ RenderTemplate({world.decls}) /\ SameWorld'
    \/ Reconcile
    \/ NameStack
    \/ CfDescribe(StatusesSmall) /\ SameWorld'
    \/ CfDelete
    \/ CfDeleteWaitPoll
    \/ CfCreateAfterDelete
    \/ CfUpdate /\ SameWorld'
    \/ CfCreate
    \/ CfWaitPoll
    \/ CfEvents(EventListingsSmall)
    \/ OutputChaining({world.outputs})
    \/ Rerun

SpecTwice == InitTwice /\ [][NextTwice]_vars

\* ---------------------------------------------------------------------
\* C14: a second run with unchanged inputs after a first run that ended
\* normally takes the update path, gets the no-updates answer, issues no
\* create and no delete, and ends normally.
\* ---------------------------------------------------------------------
C14_SecondRunUnchanged ==
    world.run = 2 =>
        /\ pc # "failed"
        /\ error = ""
        /\ \A i \in DOMAIN calls : calls[i].op \notin {"create_stack", "delete_stack"}
        /\ Len(calls) <= 2
        /\ Len(calls) >= 1 => calls[1] = Call("describe_stacks", world.status)
        /\ Len(calls) = 2 => calls[2] = Call("update_stack", CE_NoUpdates)
        /\ pc \in {"cf_done", "done"} => Len(calls) = 2
        /\ pc \in {"cf_describe", "cf_update", "cf_done", "done"} =>
              Submission.name = world.deployed.name
              /\ Submission.parameters = world.deployed.parameters

\* The second run has ended normally.
C14_Witness ==
    /\ world.run = 2
    /\ pc = "done"
    /\ Len(cf_deploy_params) >= 1
    /\ Len(lookups) >= 3

\* ---------------------------------------------------------------------
\* Parameter resolution of both programs, deploy() and
\* resolve_baseline_params(), up to the resolved ParameterSet.
\* ---------------------------------------------------------------------
\* Parameter store values that parse as JSON but not as an object: an
\* array whose first item is a pair and whose second is not, an array of
\* one pair, and a scalar (number, boolean, null).
StoreBlobs ==
    <<StoreResult("not_found", <<>>), StoreResult("fault", <<>>), StoreResult("invalid", <<>>),
      StoreResult("object", EmptyDict),
      StoreResult("object", (kK :> S("s1"))),
      StoreResult("object", (kBuildId :> S("s2")) @@ (kVPCId :> S("s2"))),
      StoreResult("array", << <<kK, S("s3")>>, <<S("x")>> >>),
      StoreResult("array", << <<kVPCId, S("s4")>> >>),
      StoreResult("scalar", <<>>)>>

\* The world holds which of the values the store returns.
ResolutionWorlds ==
    [run : {1}, parents : [{S("X"), S("Y")} -> StackResponses], ssm : DOMAIN StoreBlobs]

StoreResponse == StoreBlobs[world.ssm]

\* What the lookup of parent entry i answers in this world.
ParentResponse(i) == world.parents[ParseParentEntry(parent_stack_entries[i]).base]

InitParents ==
    /\ InitWith({NoneVal, S("acme")}, {NoneVal}, ParentCsvs(MaxParents))
    /\ FixedIdentity
    /\ program \in {"deploy", "params"}
    /\ world \in ResolutionWorlds
    /\ stack_name = NoneVal
    /\ pc = "start"

NextParents ==
    \/ BaseParams
    \/ FetchVpc(VpcListingsSmall)
    \/ FetchZones(ZoneListingsSmall)
    \/ FetchSubnets(SubnetListingsSmall)
    \/ ParentStacksBegin
    \/ ParentStackStep({ParentResponse(parent_index)})
    \/ AutoBuildId(Revisions)
    \/ SsmParams({StoreResponse})
    \/ CliOverrides(CliLists(CliStringsSmall, 1))
    \/ StoreMetadata

SpecParents == InitParents /\ [][NextParents]_vars

\* ---------------------------------------------------------------------
\* C15: parent stacks are read in list order and a later parent's output
\* replaces an earlier parent's output of the same key; where no later
\* phase wrote the key, its resolved value is that of the last parent that
\* exports it.  A parent that does not exist fails the run.
\* ---------------------------------------------------------------------
ParentLoopDone ==
    /\ parent_stack_entries # <<>>
    /\ parent_index > Len(parent_stack_entries)

ParentOutputs(i) == get_stack_outputs(ParentResponse(i))

Exporters(k) == {i \in DOMAIN parent_stack_entries : k \in DOMAIN ParentOutputs(i)}

LastExporter(k) == CHOOSE i \in Exporters(k) : \A j \in Exporters(k) : j <= i

WrittenAfterParents(k) == \E ph \in provenance[k].writers : ph > PhaseParents

C15_LaterParentWins ==
    /\ \A i \in DOMAIN lookups :
          /\ i <= Len(parent_stack_entries)
          /\ lookups[i].name =
                OutputStackName(project_name, environment_name,
                                ParseParentEntry(parent_stack_entries[i]).base)
          /\ lookups[i].region = ParseParentEntry(parent_stack_entries[i]).region
          /\ lookups[i].kind = ParentResponse(i).kind
          /\ lookups[i].kind = "not_exist" => pc = "failed" /\ error = ErrParentMissing
    /\ ParentLoopDone =>
          /\ Len(lookups) = Len(parent_stack_entries)
          /\ \A k \in DOMAIN params :
                (Exporters(k) # {} /\ ~WrittenAfterParents(k)) =>
                    params[k] = ParentOutputs(LastExporter(k))[k]

\* X and Y both export K with different values; resolve_baseline_params()
\* has returned with Y's value.
C15_Witness ==
    /\ program = "params"
    /\ pc = "resolved"
    /\ Len(lookups) = 2
    /\ Exporters(kK) = {1, 2}
    /\ ParentOutputs(1)[kK] # ParentOutputs(2)[kK]
    /\ params[kK] = ParentOutputs(2)[kK]

\* ---------------------------------------------------------------------
\* C16: no step of deploy() removes a key from the ParameterSet; keys are
\* only added or overwritten.
\* ---------------------------------------------------------------------
KeysKept == \A k \in DOMAIN params : k \in DOMAIN params'

C16_KeysOnlyGrow == [][KeysKept]_vars

\* A run has ended in which a key was overwritten by a later phase and
\* output chaining added a key.
C16_Witness ==
    /\ pc = "done"
    /\ \E k \in DOMAIN provenance : Cardinality(provenance[k].writers) >= 2
    /\ \E k \in DOMAIN params : k \notin DOMAIN provenance

\* ---------------------------------------------------------------------
\* C17: the forwarded parameter list has exactly one entry for every
\* declared key that is in the ParameterSet and no other entry; undeclared
\* keys and absent keys with a Default are not forwarded and are no error.
\* ---------------------------------------------------------------------
DeclaredKeys == {template_parameters[i].key : i \in DOMAIN template_parameters}

Forwarded(k) == {i \in DOMAIN cf_deploy_params : cf_deploy_params[i].ParameterKey = k}

C17_ForwardedExactlyDeclaredAndPresent ==
    Reconciled =>
        /\ \A i \in DOMAIN cf_deploy_params :
              /\ cf_deploy_params[i].ParameterKey \in DeclaredKeys \cap DOMAIN ResolvedParams
              /\ cf_deploy_params[i].ParameterValue
                    = StrOf(ResolvedParams[cf_deploy_params[i].ParameterKey])
        /\ \A k \in DeclaredKeys \cap DOMAIN ResolvedParams : Cardinality(Forwarded(k)) = 1
        /\ (\A i \in DOMAIN template_parameters :
               template_parameters[i].key \in DOMAIN ResolvedParams
               \/ template_parameters[i].hasDefault)
           => error # ErrMissingParams

\* The list was passed on although the ParameterSet holds undeclared keys
\* and a declared key with a Default is absent.
C17_Witness ==
    /\ pc = "cf_describe"
    /\ cf_deploy_params # <<>>
    /\ \E k \in DOMAIN params : k \notin DeclaredKeys
    /\ \E i \in DOMAIN template_parameters :
          /\ template_parameters[i].hasDefault
          /\ template_parameters[i].key \notin DOMAIN params

\* ---------------------------------------------------------------------
\* What deploy() prints about the forwarded parameters: the reconciliation
\* loop prints each forwarded value, "****" for a NoEcho parameter, and,
\* once the stack name is built, the whole list cf_deploy_params.
\* ---------------------------------------------------------------------
Masked == S("****")

RECURSIVE ReconciliationLines(_, _, _)
ReconciliationLines(decls, p, i) ==
    IF i > Len(decls) THEN <<>>
    ELSE (IF decls[i].key \in DOMAIN p
          THEN <<[ParameterKey |-> decls[i].key,
                  ParameterValue |-> IF decls[i].noEcho THEN Masked
                                     ELSE StrOf(p[decls[i].key])]>>
          ELSE <<>>)
         \o ReconciliationLines(decls, p, i + 1)

PrintedFinalParameters == IF stack_name # NoneVal THEN cf_deploy_params ELSE <<>>

PrintedParameters ==
    (IF Reconciled THEN ReconciliationLines(template_parameters, ResolvedParams, 1) ELSE <<>>)
    \o PrintedFinalParameters

\* ---------------------------------------------------------------------
\* C18: the value of a NoEcho template parameter is never printed.
\* ---------------------------------------------------------------------
C18_NoEchoNeverPrinted ==
    \A i \in DOMAIN template_parameters :
        template_parameters[i].noEcho =>
            \A j \in DOMAIN PrintedParameters :
                PrintedParameters[j].ParameterKey = template_parameters[i].key =>
                    PrintedParameters[j].ParameterValue = Masked

\* ---------------------------------------------------------------------
\* C19: the parameter store phase never ends the run; a lookup that
\* reports not-found, fails, or returns a value that is not a JSON object
\* leaves the ParameterSet as it was, and a JSON object is merged whole.
\* ---------------------------------------------------------------------
StorePhaseDone == program = "deploy" /\ pc \in {"cli", "read_template"}

WrittenByStore == {k \in DOMAIN provenance : PhaseStore \in provenance[k].writers}

C19_StoreAllOrNothing ==
    /\ (program = "deploy" /\ pc = "failed") =>
          error \in {ErrDiscovery, ErrParentFault, ErrParentMissing}
    /\ StorePhaseDone =>
          IF StoreResponse.kind = "object"
          THEN /\ WrittenByStore = DOMAIN StoreResponse.value
               /\ pc = "cli" => \A k \in WrittenByStore : params[k] = StoreResponse.value[k]
          ELSE WrittenByStore = {}

\* ---------------------------------------------------------------------
\* C20: whatever discovery and the parent stacks merged, the parameter
\* store is looked up at /deploy/{lowercased environment_name}/params.json.
\* ---------------------------------------------------------------------
ExpectedStoreKey == <<"/deploy/">> \o Lower(environment_name) \o <<"/params.json">>

C20_StoreKeyFromEnvironmentName ==
    param_store_key # NoneVal => param_store_key = ExpectedStoreKey

\* ---------------------------------------------------------------------
\* Resolution of both programs with the answer of git held by the world.
\* ---------------------------------------------------------------------
GitWorlds == [run : {1}, git : Revisions]

\* A parent list that mixes an entry with a region, an entry without one
\* and an entry whose '@' is followed by nothing: "Y@eu, X,Z@".
MixedParents == <<"Y", "@", "eu", ",", " ", "X", ",", "Z", "@">>

InitGit ==
    /\ InitWith({S("acme")}, {NoneVal, S("b42")}, {NoneVal, S("X"), MixedParents})
    /\ FixedIdentity
    /\ program \in {"deploy", "params"}
    /\ world \in GitWorlds
    /\ stack_name = NoneVal
    /\ pc = "start"

NextGit ==
    \/ BaseParams
    \/ FetchVpc(VpcListingsSmall)
    \/ FetchZones(ZoneListingsSmall)
    \/ FetchSubnets(SubnetListings)
    \/ ParentStacksBegin
    \/ ParentStackStep(StackResponses)
    \/ AutoBuildId({world.git})
    \/ SsmParams(StoreResultsSmall)
    \/ CliOverrides(CliLists(CliStringsSmall, 1))
    \/ StoreMetadata

SpecGit == InitGit /\ [][NextGit]_vars

\* ---------------------------------------------------------------------
\* C21: the build-id phase leaves a BuildId that is already in the
\* ParameterSet alone; when the key is absent it sets it to the revision if
\* git gave one and leaves it absent if git failed or is not installed; the
\* phase never fails the run.
\* ---------------------------------------------------------------------
BuildIdStep ==
    pc = "buildid" =>
        /\ pc' = After("buildid")
        /\ error' = error
        /\ params' = IF kBuildId \in DOMAIN params THEN params
                     ELSE IF world.git # NoneVal THEN Put(params, kBuildId, world.git)
                     ELSE params

C21_BuildIdDerivation == [][BuildIdStep]_vars

\* resolve_baseline_params() took BuildId from git and a parent stack
\* that exports BuildId replaced it afterwards.
C21_Witness ==
    /\ program = "params"
    /\ pc = "cli"
    /\ world.git # NoneVal
    /\ provenance[kBuildId].writers = {PhaseBuildId, PhaseParents}

\* ---------------------------------------------------------------------
\* get_hosted_zone_data on its own: the world holds the suffix it is called
\* with and the zone listing, a sequence of zones cut into two pages.
\* ---------------------------------------------------------------------
MaxZones == 3

Zone(name, id, private) == [Name |-> name, Id |-> <<"/hostedzone/", id>>, Private |-> private]

Zones ==
    {Zone(<<"a", ".", "example", ".", "com", ".">>, "Z1", FALSE),
     Zone(<<"b", ".", "example", ".", "com", ".">>, "Z2", TRUE),
     Zone(<<"b", ".", "other", ".", "com", ".">>, "Z3", FALSE),
     Zone(<<"example", ".", "com", ".">>, "Z4", TRUE),
     Zone(<<"not", "example", ".", "com", ".">>, "Z5", FALSE),
     Zone(<<"example", ".", "com", ".", "evil", ".">>, "Z6", TRUE)}

Suffixes ==
    {<<"example", ".", "com">>, <<"example", ".", "com", ".">>, <<"other", ".", "com">>, <<>>}

CutInTwo(list, n) == <<SubSeq(list, 1, n), SubSeq(list, n + 1, Len(list))>>

ZoneWorlds ==
    UNION {{[run |-> 1, suffix |-> suffix, pages |-> CutInTwo(list, n)] :
               suffix \in Suffixes, n \in 0..Len(list)} :
           list \in SeqsUpTo(Zones, MaxZones)}

InitZones ==
    /\ InitWith({S("acme")}, {NoneVal}, {NoneVal})
    /\ FixedIdentity
    /\ program \in {"deploy", "params"}
    /\ world \in ZoneWorlds
    /\ stack_name = NoneVal
    /\ pc = "zones"

NextZones == FetchZonesFor({world.suffix}, {world.pages})

SpecZones == InitZones /\ [][NextZones]_vars

\* ---------------------------------------------------------------------
\* C22: get_hosted_zone_data returns, for public and for private zones
\* separately, the first zone of the listing whose name ends with the
\* suffix completed by a trailing dot, and nothing for a visibility without
\* such a zone; the page at which the scan stops does not matter.
\* ---------------------------------------------------------------------
Dotted(suffix) == RStrip(suffix, ".") \o S(".")

Listing == Flatten(world.pages)

Matching(private) ==
    {i \in DOMAIN Listing :
        Listing[i].Private = private /\ EndsWith(Listing[i].Name, Dotted(world.suffix))}

FirstMatching(private) == CHOOSE i \in Matching(private) : \A j \in Matching(private) : i <= j

Selected(private, nameKey, idKey) ==
    IF Matching(private) = {}
    THEN params[nameKey] = NoneVal /\ params[idKey] = NoneVal
    ELSE LET zone == Listing[FirstMatching(private)]
         IN  /\ params[nameKey] \o S(".") = zone.Name
             /\ <<"/hostedzone/">> \o params[idKey] = zone.Id

C22_FirstMatchingZonePerVisibility ==
    pc = "subnets" =>
        /\ Selected(FALSE, kPubName, kPubId)
        /\ Selected(TRUE, kPrivName, kPrivId)

\* The suffix has no trailing dot, a zone that does not end with it comes
\* first, both visibilities are filled on the first page and a further
\* matching zone follows on the second.
C22_Witness ==
    /\ pc = "subnets"
    /\ world.suffix = <<"example", ".", "com">>
    /\ Len(world.pages[1]) = 2
    /\ Len(world.pages[2]) = 1
    /\ Matching(FALSE) # {} /\ Matching(TRUE) # {}
    /\ FirstMatching(FALSE) <= 2 /\ FirstMatching(TRUE) <= 2
    /\ 3 \in Matching(TRUE)

\* ---------------------------------------------------------------------
\* C23: every parent stack is looked up in a non-empty region: the region
\* written after '@' in its own entry, or the deployment region when the
\* entry names none, whatever the other entries of the list say.
\* ---------------------------------------------------------------------
EntryRegion(entry) ==
    IF Contains(entry, "@") /\ Strip(SplitFirst(entry, "@")[2]) # <<>>
    THEN Strip(SplitFirst(entry, "@")[2])
    ELSE aws_region

C23_DefiniteRegionPerEntry ==
    \A i \in DOMAIN lookups :
        lookups[i].purpose = "parent" =>
            /\ lookups[i].region # <<>>
            /\ lookups[i].region = EntryRegion(parent_stack_entries[i])

\* ---------------------------------------------------------------------
\* C24: deploy_cloudformation deletes the stack at most once, as the call
\* right after an initial describe that reported ROLLBACK_COMPLETE; no
\* delete follows a create, an update or a wait, failed or not.
\* ---------------------------------------------------------------------
DeployOps == {"create_stack", "update_stack"} \cup DeployWaits \cup {"stack_delete_complete"}

C24_DeleteOnlyForRollbackComplete ==
    /\ CountOp("delete_stack") <= 1
    /\ \A i \in DOMAIN calls :
          calls[i].op = "delete_stack" =>
              /\ i = 2
              /\ calls[1] = Call("describe_stacks", "ROLLBACK_COMPLETE")
              /\ stack_status = "ROLLBACK_COMPLETE"
    /\ \A i \in DOMAIN calls : \A j \in DOMAIN calls :
          (i < j /\ calls[i].op \in DeployOps) => calls[j].op # "delete_stack"

\* The stack was deleted and created again, and the create wait failed.
C24_Witness ==
    /\ pc = "failed"
    /\ CountOp("delete_stack") = 1
    /\ DeployWaitFailed

\* ---------------------------------------------------------------------
\* C25: an initial describe that fails with anything but "does not exist"
\* ends the invocation with that error and without a create, update or
\* delete; and an operation that failed is not issued a second time.
\* ---------------------------------------------------------------------
FailedCall(i) == calls[i].result \notin {"ok", CE_NoUpdates}

C25_FatalMeansNoRetry ==
    /\ DescribeResult \in {CE_Other, OtherException} =>
          /\ pc = "failed"
          /\ error = DescribeResult
          /\ Len(calls) = 1
    /\ \A i \in DOMAIN calls : \A j \in DOMAIN calls :
          (i < j /\ calls[i].op \in MutatingOps /\ FailedCall(i)) =>
              calls[j].op # calls[i].op

\* ---------------------------------------------------------------------
\* get_initial_web_config_from_stacks() on its own.  The world holds what
\* each parent stack answers and the whitelist argument.
\* ---------------------------------------------------------------------
WhitelistCsvs == {NoneVal, <<>>, <<" ", "K", ",", "Region", ",">>}

RenderWorlds ==
    [run : {1}, parents : [{S("X"), S("Y")} -> StackResponses], whitelist : WhitelistCsvs]

InitRender ==
    /\ InitWith({NoneVal, S("acme")}, {NoneVal}, ParentCsvs(MaxParents))
    /\ FixedIdentity
    /\ program = "render"
    /\ world \in RenderWorlds
    /\ stack_name = NoneVal
    /\ pc = "parents"

NextRender ==
    \/ ParentStacksBegin
    \/ WebConfigStep({ParentResponse(parent_index)}, {world.whitelist})

SpecRender == InitRender /\ [][NextRender]_vars

\* ---------------------------------------------------------------------
\* C26: whichever operation reads the parent list, a listed parent stack
\* that does not exist or has no outputs ends the run in failure; no
\* further entry is read after it.
\* ---------------------------------------------------------------------
C26_MissingParentFailsEveryConsumer ==
    \A i \in DOMAIN ParentLookups :
        (ParentLookups[i].kind # "fault" /\ ParentLookups[i].empty) =>
            /\ pc = "failed"
            /\ error = ErrParentMissing
            /\ i = Len(ParentLookups)

\* ---------------------------------------------------------------------
\* C27: deploy_cloudformation creates the stack at most once, either right
\* after an initial describe that said the stack does not exist or right
\* after the completed delete of a ROLLBACK_COMPLETE stack; a create or an
\* update that failed is never followed by a create.
\* ---------------------------------------------------------------------
CreatePositions == {i \in DOMAIN calls : calls[i].op = "create_stack"}

C27_AtMostOneCreate ==
    /\ Cardinality(CreatePositions) <= 1
    /\ \A i \in CreatePositions :
          \/ i = 2 /\ calls[1] = Call("describe_stacks", CE_NotExist)
          \/ /\ i = 4
             /\ calls[1] = Call("describe_stacks", "ROLLBACK_COMPLETE")
             /\ calls[2] = Call("delete_stack", "ok")
             /\ calls[3] = Call("stack_delete_complete", "ok")
    /\ \A i \in CreatePositions : \A j \in 1..(i - 1) :
          calls[j].op \in {"create_stack", "update_stack"} => ~FailedCall(j)

\* ---------------------------------------------------------------------
\* C28: every forwarded parameter value was contributed by a phase as a
\* value; a declared key that holds only the null result of a discovery
\* lookup is not forwarded and, without a Default, is reported missing.
\* ---------------------------------------------------------------------
HoldsNull(k) == k \in DOMAIN ResolvedParams /\ ResolvedParams[k] = NoneVal

C28_NullIsNotForwarded ==
    Reconciled =>
        /\ \A i \in DOMAIN cf_deploy_params : ~HoldsNull(cf_deploy_params[i].ParameterKey)
        /\ \A i \in DOMAIN template_parameters :
              (HoldsNull(template_parameters[i].key) /\ ~template_parameters[i].hasDefault) =>
                  template_parameters[i].key \in Range(missing_params)

\* ---------------------------------------------------------------------
\* deploy() up to template matching, then resolve_baseline_params() with
\* the same arguments against the same external state.  The world fixes
\* every answer: the discovery listings and which discovery call fails,
\* the parent stacks' answers, the answer of git and the --param list; it
\* keeps how deploy() ended.  No build id argument, no parameter store blob.
\* ---------------------------------------------------------------------
NotRun == [failed |-> FALSE, params |-> EmptyDict]

BothWorlds ==
    [run : {1},
     vpcs : {<<>>, <<vpcA>>},
     zones : ZoneListingsSmall,
     subnets : {<<Subnet("subnet-1", NameTagged(S("PrivateSubnetA")))>>,
                <<Subnet("subnet-3", NameTagged(kBuildId))>>},
     faulty : {"none", "vpc", "zones", "subnets"},
     parents : [{S("X"), S("Y")} ->
                   {Response("not_exist", <<>>), Response("fault", <<>>),
                    Response("stack", <<Output(kK, S("p1"))>>),
                    Response("stack", <<Output(kBuildId, S("p3")), Output(kEnvLower, S("p3"))>>)}],
     git : Revisions,
     cli : {NoneVal, <<kK \o <<"=", "c1">> >>, <<kBuildId \o <<"=", "c3">> >>,
            <<S("DeploymentName") \o <<"=", "c4">> >>},
     first : {NotRun}]

\* The discovery call `step` fails exactly when the world says so.
FaultAt(step) == (pc' = "failed") <=> (world.faulty = step)

\* deploy() has reached template matching or has failed; the other
\* pipeline is run.
CallResolveBaselineParams ==
    /\ program = "deploy"
    /\ pc \in {"read_template", "failed"}
    /\ world.run = 1
    /\ world' = [world EXCEPT !.run = 2,
                              !.first = [failed |-> pc = "failed",
                                         params |-> IF pc = "failed" THEN EmptyDict
                                                    ELSE params]]
    /\ program' = "params"
    /\ pc' = "start"
    /\ error' = ""
    /\ params' = EmptyDict
    /\ provenance' = EmptyDict
    /\ parent_stack_entries' = <<>>
    /\ parent_index' = 0
    /\ lookups' = <<>>
    /\ param_store_key' = NoneVal
    /\ cli_param_dict_parsed' = EmptyDict
    /\ UNCHANGED <<project_name, environment_name, deployment_type, deployment_name,
                   stack_name, build_id, parent_stacks_csv, rendered, template_parameters,
                   cf_deploy_params, missing_params, cfVars>>

InitBoth ==
    /\ InitWith({S("acme")}, {NoneVal},
                {NoneVal, S("X"), Join(<<S("X"), <<" ", "Y", "@", "eu", " ">> >>, S(","))})
    /\ FixedIdentity
    /\ program = "deploy"
    /\ world \in BothWorlds
    /\ stack_name = NoneVal
    /\ pc = "start"

NextBoth ==
    \/ BaseParams
    \/ FetchVpc({world.vpcs}) /\ FaultAt("vpc")
    \/ FetchZones({world.zones}) /\ FaultAt("zones")
    \/ FetchSubnets({world.subnets}) /\ (Truthy(params[kVPCId]) => FaultAt("subnets"))
    \/ ParentStacksBegin
    \/ ParentStackStep({ParentResponse(parent_index)})
    \/ AutoBuildId({world.git})
    \/ SsmParams({StoreResult("not_found", <<>>)})
    \/ CliOverrides({world.cli})
    \/ StoreMetadata
    \/ CallResolveBaselineParams

SpecBoth == InitBoth /\ [][NextBoth]_vars

\* ---------------------------------------------------------------------
\* C29: for the same inputs and the same external state, without build id
\* argument and parameter store blob, resolve_baseline_params() fails
\* exactly when deploy() failed before template matching, and otherwise
\* its result without _metadata, with DeploymentName added, is the
\* ParameterSet deploy() matched against the template.
\* ---------------------------------------------------------------------
BaselineAsDeploy ==
    [k \in (DOMAIN params \ {S("_metadata")}) \cup {S("DeploymentName")} |->
        IF k \in DOMAIN params THEN params[k] ELSE deployment_name]

jira_issue == "J-1"

Whitespace == {" ", "\n"}

\* str.strip()
RECURSIVE StripWs(_)
StripWs(s) ==
    IF s # <<>> /\ Head(s) \in Whitespace THEN StripWs(Tail(s))
    ELSE IF s # <<>> /\ s[Len(s)] \in Whitespace THEN StripWs(SubSeq(s, 1, Len(s) - 1))
    ELSE s

StartsWith(s, prefix) == Len(prefix) <= Len(s) /\ SubSeq(s, 1, Len(prefix)) = prefix

\* _parse_gerrit_message: [summary, description]
ParseGerritMessage(raw_message) ==
    IF StripWs(raw_message) = <<>> THEN [summary |-> <<>>, description |-> <<>>]
    ELSE LET lines == SplitAll(StripWs(raw_message), "\n")
             prefix == <<"[", jira_issue, "]", " ">>
             first_line == IF StartsWith(lines[1], prefix)
                           THEN SubSeq(lines[1], Len(prefix) + 1, Len(lines[1]))
                           ELSE lines[1]
         IN  [summary |-> StripWs(first_line),
              description |-> StripWs(Join(Tail(lines), S("\n")))]

StatusStep_TransitionUnlessInProgress(status_name) ==
    IF status_name = "In Progress" THEN "keep" ELSE "transition"

\* The status branch of cmd_check.
StatusStep(status_name) ==
    IF status_name = "In Progress" THEN "keep"
    ELSE IF status_name \in {"Created", "To Do", "Open"} THEN "transition"
    ELSE "reject"

\* next((t for t in transitions if t.get("name") == target_status), None):
\* the position of the target, 0 for None
RECURSIVE TargetTransition(_, _, _)
TargetTransition(transitions, target_status, i) ==
    IF i > Len(transitions) THEN 0
    ELSE IF transitions[i].name = target_status THEN i
    ELSE TargetTransition(transitions, target_status, i + 1)

\* fields.get("description", "") or ""
IssueDescription(issue) == IF issue.description = NoneVal THEN <<>> ELSE issue.description

UpdateFields(issue, commit) ==
    LET withSummary == IF issue.summary # commit.summary
                       THEN ("summary" :> commit.summary) ELSE EmptyDict
    IN  IF IssueDescription(issue) # commit.description
        THEN withSummary @@ ("description" :> commit.description)
        ELSE withSummary

Request(method, url, data, outcome) ==
    [method |-> method, url |-> url, data |-> data, outcome |-> outcome]

jiraUnchanged ==
    UNCHANGED <<error, identity, world, stack_name, build_id, parent_stacks_csv, provenance,
                parent_stack_entries, parent_index, lookups, param_store_key,
                cli_param_dict_parsed, rendered, template_parameters, cf_deploy_params,
                missing_params, stack_status, waiter_type, action_taken, attempts, slept,
                event_pages, events_retrieved, shown_events>>

FetchIssue ==
    /\ pc = "jira_fetch"
    /\ calls' = Append(calls, Request("GET", "issue", EmptyDict, world.fetch))
    /\ pc' = IF world.fetch = "ok" THEN "jira_status" ELSE "returned_1"
    /\ UNCHANGED params
    /\ jiraUnchanged

CheckStatus ==
    /\ pc = "jira_status"
    /\ pc' = CASE StatusStep(world.issue.status) = "keep" -> "jira_sync"
               [] StatusStep(world.issue.status) = "transition" -> "jira_transitions"
               [] OTHER -> "returned_1"
    /\ UNCHANGED <<calls, params>>
    /\ jiraUnchanged

\* _transition_issue: the GET of the available transitions
FetchTransitions ==
    /\ pc = "jira_transitions"
    /\ calls' = Append(calls, Request("GET", "transitions", EmptyDict, world.list))
    /\ pc' = IF world.list = "ok"
                /\ TargetTransition(world.transitions, "In Progress", 1) # 0
             THEN "jira_transition" ELSE "returned_1"
    /\ UNCHANGED params
    /\ jiraUnchanged

\* _transition_issue: the POST of the chosen transition
ExecuteTransition ==
    /\ pc = "jira_transition"
    /\ calls' = Append(calls,
                   Request("POST", "transitions",
                           ("transition" :>
                               world.transitions[
                                   TargetTransition(world.transitions, "In Progress", 1)].id),
                           world.post))
    /\ pc' = IF world.post = "ok" THEN "jira_sync" ELSE "returned_1"
    /\ UNCHANGED params
    /\ jiraUnchanged

SyncFields ==
    /\ pc = "jira_sync"
    /\ IF UpperTok(world.issue.type) \in {"BUG", "STORY"}
       THEN pc' = "returned_0" /\ UNCHANGED <<calls, params>>
       ELSE LET update_fields == UpdateFields(world.issue, ParseGerritMessage(world.message))
            IN  /\ params' = update_fields
                /\ IF update_fields = EmptyDict
                   THEN pc' = "returned_0" /\ UNCHANGED calls
                   ELSE /\ calls' = Append(calls, Request("PUT", "issue", update_fields, world.put))
                        /\ pc' = IF world.put = "ok" THEN "returned_0" ELSE "returned_1"
    /\ jiraUnchanged

Outcomes == {"ok", "HTTPError"}

Issues ==
    [status : {"In Progress", "Created", "To Do", "Open", "Done", "Unknown"},
     type : {"Task", "Bug", "STORY"},
     summary : {S("Fix"), S("Old")},
     description : {NoneVal, S("Body"), <<"Body", "\n">>}]

Messages ==
    {<<"[", "J-1", "]", " ", "Fix", "\n", "\n", "Body", "\n">>,
     <<" ", "Fix", " ">>,
     <<"[", "J-2", "]", " ", "Fix", "\n", "Body", "\n", "\n", "More">>,
     <<"\n">>}

Transition(name, id) == [name |-> name, id |-> id]

TransitionLists ==
    {<<>>,
     <<Transition("Done", "31")>>,
     <<Transition("Done", "31"), Transition("In Progress", "21"), Transition("In Progress", "41")>>}

JiraWorlds ==
    [run : {1},
     issue : Issues,
     message : Messages,
     transitions : TransitionLists,
     fetch : Outcomes \cup {"errorMessages"},
     list : Outcomes,
     post : Outcomes,
     put : Outcomes]

InitJira ==
    /\ InitWith({NoneVal}, {NoneVal}, {NoneVal})
    /\ FixedIdentity
    /\ program = "jira_check"
    /\ world \in JiraWorlds
    /\ stack_name = NoneVal
    /\ pc = "jira_fetch"

NextJira ==
    \/ FetchIssue
    \/ CheckStatus
    \/ FetchTransitions
    \/ ExecuteTransition
    \/ SyncFields

SpecJira == InitJira /\ [][NextJira]_vars

\* ---------------------------------------------------------------------
\* C30: cmd_check posts the 'In Progress' transition only for a ticket
\* fetched as Created, To Do or Open; for a status that is neither one of
\* these nor In Progress it returns 1 with nothing posted or put; it puts
\* fields only after the status step succeeded, only for an issue type
\* other than BUG and STORY, and exactly the fields among summary and
\* description that differ from the commit message, so none when both
\* match.
\* ---------------------------------------------------------------------
Posts == {i \in DOMAIN calls : calls[i].method = "POST"}

Puts == {i \in DOMAIN calls : calls[i].method = "PUT"}

Returned == pc \in {"returned_0", "returned_1"}

Commit == ParseGerritMessage(world.message)

Differing ==
    (IF world.issue.summary # Commit.summary THEN {"summary"} ELSE {})
    \cup (IF IssueDescription(world.issue) # Commit.description THEN {"description"} ELSE {})

C30_MutatesOnlyAcceptedTickets ==
    /\ \A i \in Posts :
          /\ world.issue.status \in {"Created", "To Do", "Open"}
          /\ calls[i].url = "transitions"
          /\ \E j \in DOMAIN world.transitions :
                /\ world.transitions[j].name = "In Progress"
                /\ calls[i].data = ("transition" :> world.transitions[j].id)
          /\ Cardinality(Posts) = 1
    /\ world.issue.status \notin {"Created", "To Do", "Open", "In Progress"} =>
          /\ Posts = {} /\ Puts = {}
          /\ Returned => pc = "returned_1"
    /\ \A i \in Puts :
          /\ \/ world.issue.status = "In Progress"
             \/ \E j \in Posts : j < i /\ calls[j].outcome = "ok"
          /\ UpperTok(world.issue.type) \notin {"BUG", "STORY"}
          /\ DOMAIN calls[i].data = Differing
          /\ \A f \in Differing : calls[i].data[f] = Commit[f]
          /\ Cardinality(Puts) = 1
    /\ (Returned /\ Differing = {}) => Puts = {}

\* A ticket fetched as Open was moved to In Progress and then only its
\* description, which differed from the commit message, was put.
C30_Witness ==
    /\ pc = "returned_0"
    /\ world.issue.status = "Open"
    /\ Posts # {}
    /\ \E i \in Puts : DOMAIN calls[i].data = {"description"}

====
